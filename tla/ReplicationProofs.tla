-------------------------- MODULE ReplicationProofs -------------------------
(***************************************************************************)
(* Proofs about Replication, for any number of slaves, commands, pings,    *)
(* failures and restarts and any size of the logs: what every part relies  *)
(* on (SlavesConsistent), what is on its way to a slave continues its log  *)
(* (StreamContinues), and what a slave says it has applied is in its store *)
(* (NothingLost).                                                          *)
(*                                                                         *)
(* None of the three is inductive.  A log stays a copy because of what is  *)
(* in the stream, the stream because of the offset the master keeps for    *)
(* the connection, that offset because of what the handshake sent, and a   *)
(* snapshot holds what its offset claims because of the file being sent    *)
(* and the copy being saved.  RInv says all of this, slave by slave, of    *)
(* the places of the log; MInv says when other bytes than the log's are    *)
(* sent for them.                                                          *)
(***************************************************************************)
EXTENDS Replication, SequenceTheorems, TLAPS

Elements(l) == {l[i] : i \in DOMAIN l}

Prefix(l, m) == Len(l) <= Len(m) /\ \A i \in 1..Len(l) : l[i] = m[i]

\* A store with the commands d has all of the first o commands of log h, and
\* nothing that is not in the store x.
Covers(d, o, h, x) ==
  /\ o \in 0..Len(h)
  /\ \A j \in 1..o : h[j] # PING => h[j] \in Elements(d)
  /\ Elements(d) \subseteq Elements(x)

\* What can be in a stream m, when log h is read: nothing but its end; the
\* commands after offset n; a snapshot of offset n, then those; the answer to
\* a PSYNC of offset n.
Silence(m) == m = <<>> \/ m = <<EOF>>

Flow(m, n, h) ==
  \A i \in 1..Len(m) : \/ i = Len(m) /\ m[i] = EOF
                       \/ n + i <= Len(h) /\ m[i] = Cmd(h[n + i])

Dump(m, n, h, x) ==
  \/ Silence(m)
  \/ /\ m # <<>>
     /\ \E d \in Seq(Commands) : m[1] = Snapshot(d) /\ Covers(d, n, h, x)
     /\ Flow(Tail(m), n, h)

Answer(m, n, h, x) ==
  \/ Silence(m)
  \/ m # <<>> /\ m[1] = Continue /\ Flow(Tail(m), n, h)
  \/ m # <<>> /\ \E o \in 0..Len(h) : m[1] = FullResync(o) /\ Dump(Tail(m), o, h, x)

Handshake == {"CONNECTING", "WAITING_AUTH_REPLY", "WAITING_INFO_REPLY",
              "WAITING_REPLCONF_REPLY", "WAITING_PSYNC_REPLY"}

\* What a slave in state st, with n commands logged and cached offset co, finds
\* in its stream.
Incoming(st, m, n, co, h, x) ==
  /\ st \in {"LOADING_SNAPSHOT", "SYNCED"} => Flow(m, n, h)
  /\ st = "WAITING_SNAPSHOT" => Dump(m, co, h, x)
  /\ st = "WAITING_PSYNC_REPLY" => Answer(m, n, h, x)
  /\ st \in Handshake \ {"WAITING_PSYNC_REPLY"} => Silence(m)

\* The offset of the record the master writes next, on a synced connection
\* to such a slave.
Position(st, m, n, co, so) ==
  \/ st \in {"LOADING_SNAPSHOT", "SYNCED"} /\ so = n + Len(m)
  \/ st = "WAITING_SNAPSHOT" /\ m # <<>> /\ so = co + Len(m) - 1
  \/ st = "WAITING_PSYNC_REPLY" /\ m # <<>> /\ m[1] = Continue /\ so = n + Len(m) - 1
  \/ st = "WAITING_PSYNC_REPLY" /\ Len(m) > 1 /\ m[1] = FullResync(m[1].off)
       /\ so = m[1].off + Len(m) - 2

\* What is in the stream m of a connection with both ends open, given the state
\* ss, offset so and file fs the master keeps for it.
Open(en, ss, so, m, fs, st, n, co, h, x) ==
  en = {"master", "slave"} =>
    /\ \A i \in 1..Len(m) : m[i] # EOF
    /\ ss \in {"absent", "NULL"} => st \in Handshake /\ m = <<>>
    /\ ss = "WAITING_SNAPSHOT" => st = "WAITING_PSYNC_REPLY" /\ m = <<>>
    /\ ss = "SYNCING_SNAPSHOT" =>
         /\ Covers(fs, so, h, x) /\ fs # None
         /\ \/ st = "WAITING_PSYNC_REPLY" /\ Len(m) = 1 /\ m[1] = FullResync(so)
            \/ st = "WAITING_SNAPSHOT" /\ m = <<>> /\ co = so
    /\ ss = "SYNCED" => Position(st, m, n, co, so)
-----------------------------------------------------------------------------
(***************************************************************************)
(* The inductive invariant.                                                *)
(***************************************************************************)
SyncStates == {"absent", "NULL", "WAITING_SNAPSHOT", "SYNCING_SNAPSHOT", "SYNCED"}
SlaveStates == Handshake \cup {"INVALID", "WAITING_SNAPSHOT", "LOADING_SNAPSHOT", "SYNCED"}
Request == [key : {MasterKey, OtherKey}, wal : Seq(Commands), copy : BOOLEAN]
Message == {EOF, Continue} \cup {FullResync(o) : o \in Nat}
             \cup {Snapshot(d) : d \in Seq(Commands)} \cup {Cmd(c) : c \in Commands}

LinkShape ==
  /\ ends \in [Slaves -> SUBSET {"master", "slave"}]
  /\ request \in [Slaves -> Seq(Request)]
  /\ stream \in [Slaves -> Seq(Message)]

MasterShape ==
  /\ store \in Seq(Commands) /\ queue \in Seq(Commands) /\ history \in Seq(Commands)
  /\ posting \in [Workers -> Commands]
  /\ log_start \in 0..Len(history)
  /\ snapshot_saving \in -1..Len(history)
  /\ backup \in Seq(Commands) \cup {None}
  /\ sync_state \in [Slaves -> SyncStates]
  /\ sync_offset \in [Slaves -> Nat]
  /\ writing \in [Slaves -> {"off", "once", "on"}]
  /\ file_sending \in [Slaves -> Seq(Commands) \cup {None}]

SlaveShape ==
  /\ state \in [Slaves -> SlaveStates]
  /\ server_key \in [Slaves -> {MasterKey, OtherKey}]
  /\ data_offset \in [Slaves -> Nat] /\ cached_offset \in [Slaves -> Nat]
  /\ replay_end \in [Slaves -> Nat] /\ wal_start \in [Slaves -> Nat]
  /\ wal \in [Slaves -> Seq(Commands)]
  /\ db \in [Slaves -> Seq(Commands)] /\ snapshot \in [Slaves -> Seq(Commands)]
  /\ loading \in [Slaves -> {"no", "running", "keyed"}]
  /\ stale \in [Slaves -> BOOLEAN]

Shape == LinkShape /\ MasterShape /\ SlaveShape

\* What is logged, or on its way to the log, has been executed.
Executed ==
  /\ Elements(history) \subseteq Elements(store) \cup {PING}
  /\ Elements(queue) \subseteq Elements(store) \cup {PING}
  /\ \A w \in Workers : posting[w] \in Elements(store) \cup {PING}

Saving ==
  /\ snapshot_saving # -1 /\ backup # None => Covers(backup, snapshot_saving, history, store)
  /\ \A s \in Slaves : sync_state[s] = "WAITING_SNAPSHOT" => snapshot_saving # -1

\* The two ends of a connection.
Ends(s) ==
  /\ state[s] = "INVALID" <=> "slave" \notin ends[s]
  /\ "slave" \notin ends[s] => stream[s] = <<>>
  /\ "master" \notin ends[s] => sync_state[s] \in {"absent", "NULL"} /\ request[s] = <<>>
  /\ sync_offset[s] <= Len(history)
  /\ sync_state[s] = "SYNCING_SNAPSHOT" => file_sending[s] # None

\* The PSYNC on its way to the master.
Asked(s) ==
  request[s] # <<>> =>
    /\ Len(request[s]) = 1
    /\ Prefix(request[s][1].wal, history)
    /\ sync_state[s] \in {"absent", "NULL"}
    /\ "slave" \in ends[s] =>
         /\ state[s] = "WAITING_PSYNC_REPLY"
         /\ request[s][1].key = server_key[s] /\ request[s][1].wal = wal[s]

\* The stream as the slave will read it.
Reads(s) == Incoming(state[s], stream[s], Len(wal[s]), cached_offset[s], history, store)

\* The stream as the master has written it.
Writes(s) ==
  Open(ends[s], sync_state[s], sync_offset[s], stream[s], file_sending[s],
       state[s], Len(wal[s]), cached_offset[s], history, store)

\* The log of the slave, and the load or replay under way.
Logged(s) ==
  /\ Prefix(wal[s], history)
  /\ wal_start[s] <= Len(wal[s])
  /\ state[s] \in {"WAITING_SNAPSHOT", "LOADING_SNAPSHOT"} => cached_offset[s] <= Len(history)
  /\ state[s] = "LOADING_SNAPSHOT" <=> loading[s] \in {"running", "keyed"}
  /\ state[s] = "LOADING_SNAPSHOT" => cached_offset[s] <= Len(wal[s])
  /\ replay_end[s] # 0 => state[s] \in {"SYNCED", "INVALID"}

\* The store of the slave.
Stored(s) ==
  /\ loading[s] = "running" =>
       /\ server_key[s] = OtherKey
       /\ Covers(snapshot[s], cached_offset[s], history, store)
  /\ loading[s] = "keyed" => Covers(db[s], cached_offset[s], history, store)
  /\ server_key[s] = MasterKey /\ loading[s] = "no" /\ ~stale[s] =>
       /\ data_offset[s] <= Len(wal[s])
       /\ Covers(db[s], data_offset[s], history, store)
       /\ replay_end[s] # 0 /\ state[s] = "SYNCED" =>
            data_offset[s] < replay_end[s] /\ replay_end[s] <= Len(wal[s])

Local(s) == Ends(s) /\ Asked(s) /\ Reads(s) /\ Writes(s) /\ Logged(s) /\ Stored(s)

RInv == Shape /\ Executed /\ Saving /\ \A s \in Slaves : Local(s)

\* A step that leaves alone the connection, or the process, of slave s.
SameLink(s) ==
  /\ ends'[s] = ends[s] /\ request'[s] = request[s] /\ stream'[s] = stream[s]
  /\ sync_state'[s] = sync_state[s] /\ sync_offset'[s] = sync_offset[s]
  /\ file_sending'[s] = file_sending[s]

SameSlave(s) ==
  /\ state'[s] = state[s] /\ server_key'[s] = server_key[s]
  /\ data_offset'[s] = data_offset[s] /\ cached_offset'[s] = cached_offset[s]
  /\ replay_end'[s] = replay_end[s] /\ wal_start'[s] = wal_start[s] /\ wal'[s] = wal[s]
  /\ db'[s] = db[s] /\ snapshot'[s] = snapshot[s] /\ loading'[s] = loading[s]
  /\ stale'[s] = stale[s]

\* A step in which logs and stores only grow.
Grows ==
  /\ history \in Seq(Commands) /\ history' \in Seq(Commands) /\ Prefix(history, history')
  /\ Elements(store) \subseteq Elements(store')
-----------------------------------------------------------------------------
(***************************************************************************)
(* Messages and what a stream holds.                                       *)
(***************************************************************************)

\* The kinds of message differ and carry what they were made of.
LEMMA Kinds ==
  /\ EOF.t = "EOF" /\ Continue.t = "CONTINUE"
  /\ \A o : FullResync(o).t = "FULLRESYNC" /\ FullResync(o).off = o
  /\ \A d : Snapshot(d).t = "SNAPSHOT" /\ Snapshot(d).db = d
  /\ \A c : Cmd(c).t = "CMD" /\ Cmd(c).cmd = c
  BY DEF EOF, Continue, FullResync, Snapshot, Cmd

LEMMA Messages ==
  /\ EOF \in Message /\ Continue \in Message
  /\ \A o \in Nat : FullResync(o) \in Message
  /\ \A d \in Seq(Commands) : Snapshot(d) \in Message
  /\ \A c \in Commands : Cmd(c) \in Message
  BY DEF Message

\* A log that grows keeps what was read of it.
LEMMA FlowGrows ==
  ASSUME NEW m \in Seq(Message), NEW n \in Nat, NEW h \in Seq(Commands), NEW g \in Seq(Commands),
         Flow(m, n, h), Prefix(h, g)
  PROVE  Flow(m, n, g)
  BY DEF Flow, Prefix

LEMMA CoversGrows ==
  ASSUME NEW d, NEW n, NEW h \in Seq(Commands), NEW g \in Seq(Commands), NEW x, NEW y,
         Covers(d, n, h, x), Prefix(h, g), Elements(x) \subseteq Elements(y)
  PROVE  Covers(d, n, g, y)
  BY DEF Covers, Prefix

LEMMA TailIsSeq ==
  ASSUME NEW T, NEW m \in Seq(T), m # <<>>
  PROVE  /\ Tail(m) \in Seq(T) /\ Len(Tail(m)) = Len(m) - 1 /\ Len(m) \in Nat \ {0}
         /\ \A i \in 1..Len(m) - 1 : Tail(m)[i] = m[i + 1]
         /\ m[1] \in T /\ Head(m) = m[1]
  BY HeadTailProperties

LEMMA DumpGrows ==
  ASSUME NEW m \in Seq(Message), NEW n \in Nat, NEW h \in Seq(Commands), NEW g \in Seq(Commands),
         NEW x, NEW y, Dump(m, n, h, x), Prefix(h, g), Elements(x) \subseteq Elements(y)
  PROVE  Dump(m, n, g, y)
<1>1. CASE Silence(m)
  BY <1>1 DEF Dump
<1>2. CASE ~Silence(m)
  <2>1. m # <<>> /\ Tail(m) \in Seq(Message)
    BY <1>2, TailIsSeq DEF Silence
  <2>2. Flow(Tail(m), n, g)
    BY <1>2, <2>1, FlowGrows DEF Dump
  <2>3. \E d \in Seq(Commands) : m[1] = Snapshot(d) /\ Covers(d, n, g, y)
    BY <1>2, CoversGrows DEF Dump
  <2> QED BY <2>1, <2>2, <2>3 DEF Dump
<1> QED BY <1>1, <1>2

LEMMA IncomingGrows ==
  ASSUME NEW st, NEW m \in Seq(Message), NEW n \in Nat, NEW co \in Nat,
         NEW h \in Seq(Commands), NEW g \in Seq(Commands), NEW x, NEW y,
         Incoming(st, m, n, co, h, x), Prefix(h, g), Elements(x) \subseteq Elements(y)
  PROVE  Incoming(st, m, n, co, g, y)
<1>1. ASSUME Answer(m, n, h, x) PROVE Answer(m, n, g, y)
  <2>1. CASE Silence(m)
    BY <2>1 DEF Answer
  <2>2. CASE m # <<>> /\ m[1] = Continue /\ Flow(Tail(m), n, h)
    BY <2>2, TailIsSeq, FlowGrows DEF Answer
  <2>3. CASE m # <<>> /\ \E o \in 0..Len(h) : m[1] = FullResync(o) /\ Dump(Tail(m), o, h, x)
    <3>1. PICK o \in 0..Len(h) : m[1] = FullResync(o) /\ Dump(Tail(m), o, h, x)
      BY <2>3
    <3>2. Tail(m) \in Seq(Message)
      BY <2>3, TailIsSeq
    <3>3. o \in Nat /\ o \in 0..Len(g)
      BY DEF Prefix
    <3>4. Dump(Tail(m), o, g, y)
      BY <3>1, <3>2, <3>3, DumpGrows
    <3> QED BY <2>3, <3>1, <3>3, <3>4 DEF Answer
  <2> QED BY <1>1, <2>1, <2>2, <2>3 DEF Answer
<1> QED BY <1>1, FlowGrows, DumpGrows DEF Incoming

\* Records written after a stream continue it.
LEMMA FlowAppend ==
  ASSUME NEW m \in Seq(Message), NEW r \in Seq(Message), NEW n \in Nat, NEW h \in Seq(Commands),
         Flow(m, n, h), \A i \in 1..Len(m) : m[i] # EOF, Flow(r, n + Len(m), h)
  PROVE  Flow(m \o r, n, h)
<1>1. /\ m \o r \in Seq(Message) /\ Len(m \o r) = Len(m) + Len(r)
      /\ \A i \in 1..Len(m) : (m \o r)[i] = m[i]
      /\ \A i \in Len(m) + 1..Len(m) + Len(r) : (m \o r)[i] = r[i - Len(m)]
  BY ConcatProperties
<1>2. SUFFICES ASSUME NEW i \in 1..Len(m \o r)
               PROVE  \/ i = Len(m \o r) /\ (m \o r)[i] = EOF
                      \/ n + i <= Len(h) /\ (m \o r)[i] = Cmd(h[n + i])
  BY DEF Flow
<1>3. CASE i <= Len(m)
  BY <1>1, <1>3 DEF Flow
<1>4. CASE i > Len(m)
  <2>1. i - Len(m) \in 1..Len(r) /\ (n + Len(m)) + (i - Len(m)) = n + i
    BY <1>1, <1>4
  <2>2. \/ i - Len(m) = Len(r) /\ r[i - Len(m)] = EOF
        \/ n + i <= Len(h) /\ r[i - Len(m)] = Cmd(h[n + i])
    BY <2>1 DEF Flow
  <2> QED BY <1>1, <1>4, <2>1, <2>2
<1> QED BY <1>1, <1>3, <1>4

\* A stream cut after k messages, and ended.
LEMMA FlowCut ==
  ASSUME NEW m \in Seq(Message), NEW k \in 0..Len(m), NEW n \in Nat, NEW h \in Seq(Commands),
         Flow(m, n, h), \A i \in 1..Len(m) : m[i] # EOF
  PROVE  Flow(SubSeq(m, 1, k) \o <<EOF>>, n, h)
<1>1. /\ SubSeq(m, 1, k) \in Seq(Message) /\ Len(SubSeq(m, 1, k)) = k
      /\ \A i \in 1..k : SubSeq(m, 1, k)[i] = m[i]
  BY SubSeqProperties
<1>2. Flow(SubSeq(m, 1, k), n, h) /\ \A i \in 1..Len(SubSeq(m, 1, k)) : SubSeq(m, 1, k)[i] # EOF
  BY <1>1 DEF Flow
<1>3. <<EOF>> \in Seq(Message) /\ Flow(<<EOF>>, n + Len(SubSeq(m, 1, k)), h)
  BY DEF Flow, Message
<1> QED BY <1>1, <1>2, <1>3, FlowAppend

\* The first command of a stream is the next one of the log.
LEMMA FlowTail ==
  ASSUME NEW m \in Seq(Message), NEW n \in Nat, NEW h \in Seq(Commands),
         Flow(m, n, h), m # <<>>, Head(m) # EOF
  PROVE  n + 1 <= Len(h) /\ Head(m) = Cmd(h[n + 1]) /\ Flow(Tail(m), n + 1, h)
<1>1. /\ Len(Tail(m)) = Len(m) - 1 /\ Len(m) \in Nat \ {0} /\ Head(m) = m[1]
      /\ \A i \in 1..Len(m) - 1 : Tail(m)[i] = m[i + 1]
  BY TailIsSeq
<1>2. \A i \in 1..Len(m) : \/ i = Len(m) /\ m[i] = EOF
                           \/ n + i <= Len(h) /\ m[i] = Cmd(h[n + i])
  BY DEF Flow
<1>3. n + 1 <= Len(h) /\ Head(m) = Cmd(h[n + 1])
  <2>1. 1 \in 1..Len(m)
    BY <1>1
  <2> QED BY <1>1, <1>2, <2>1
<1>4. SUFFICES ASSUME NEW i \in 1..Len(Tail(m))
               PROVE  \/ i = Len(Tail(m)) /\ Tail(m)[i] = EOF
                      \/ (n + 1) + i <= Len(h) /\ Tail(m)[i] = Cmd(h[(n + 1) + i])
  BY <1>3 DEF Flow
<1>5. i + 1 \in 1..Len(m) /\ n + (i + 1) = (n + 1) + i /\ Tail(m)[i] = m[i + 1]
  BY <1>1
<1>6. \/ i + 1 = Len(m) /\ m[i + 1] = EOF
      \/ n + (i + 1) <= Len(h) /\ m[i + 1] = Cmd(h[n + (i + 1)])
  BY <1>2, <1>5
<1>7. CASE i + 1 = Len(m) /\ m[i + 1] = EOF
  <2>1. i \in Int /\ Len(m) \in Int
    BY <1>1
  <2>2. i = Len(m) - 1
    BY <1>7, <2>1
  <2> QED BY <1>1, <1>5, <1>7, <2>2, Zenon
<1>8. CASE n + (i + 1) <= Len(h) /\ m[i + 1] = Cmd(h[n + (i + 1)])
  BY <1>5, <1>8
<1> QED BY <1>6, <1>7, <1>8

LEMMA RecordsFlow ==
  ASSUME NEW h \in Seq(Commands), NEW a \in Nat, NEW b \in Nat, a <= b, b <= Len(h)
  PROVE  /\ Records(h, a, b) \in Seq(Message) /\ Len(Records(h, a, b)) = b - a
         /\ Flow(Records(h, a, b), a, h)
         /\ \A i \in 1..Len(Records(h, a, b)) : Records(h, a, b)[i] # EOF
<1>1. \A i \in 1..(b - a) : a + i \in 1..Len(h) /\ h[a + i] \in Commands
  BY ElementOfSeq
<1>2. \A i \in 1..(b - a) : Cmd(h[a + i]) \in Message
  BY <1>1 DEF Message
<1>3. Records(h, a, b) \in Seq(Message) /\ Len(Records(h, a, b)) = b - a
  <2>1. b - a \in Nat
    OBVIOUS
  <2>2. Records(h, a, b) \in [1..(b - a) -> Message]
    BY <1>2, Zenon DEF Records
  <2> QED BY <2>1, <2>2
<1>4. \A i \in 1..(b - a) : Records(h, a, b)[i] = Cmd(h[a + i]) /\ Cmd(h[a + i]) # EOF
  BY Kinds DEF Records
<1> QED BY <1>1, <1>3, <1>4 DEF Flow

LEMMA TailConcat ==
  ASSUME NEW T, NEW m \in Seq(T), NEW r \in Seq(T), m # <<>>
  PROVE  /\ m \o r \in Seq(T) /\ m \o r # <<>> /\ (m \o r)[1] = m[1]
         /\ Len(m \o r) = Len(m) + Len(r) /\ Tail(m \o r) = Tail(m) \o r
<1>1. /\ m \o r \in Seq(T) /\ Len(m \o r) = Len(m) + Len(r)
      /\ \A i \in 1..Len(m) : (m \o r)[i] = m[i]
      /\ \A i \in Len(m) + 1..Len(m) + Len(r) : (m \o r)[i] = r[i - Len(m)]
  BY ConcatProperties
<1>2. /\ Tail(m) \in Seq(T) /\ Len(Tail(m)) = Len(m) - 1 /\ Len(m) \in Nat \ {0} /\ Len(r) \in Nat
      /\ \A i \in 1..Len(m) - 1 : Tail(m)[i] = m[i + 1]
  BY TailIsSeq
<1>3. m \o r # <<>>
  BY <1>1, <1>2
<1>4. /\ Tail(m \o r) \in Seq(T) /\ Len(Tail(m \o r)) = Len(m) + Len(r) - 1
      /\ \A i \in 1..Len(m) + Len(r) - 1 : Tail(m \o r)[i] = (m \o r)[i + 1]
  BY <1>1, <1>3, TailIsSeq
<1>5. /\ Tail(m) \o r \in Seq(T) /\ Len(Tail(m) \o r) = Len(m) - 1 + Len(r)
      /\ \A i \in 1..Len(m) - 1 : (Tail(m) \o r)[i] = Tail(m)[i]
      /\ \A i \in Len(m)..Len(m) - 1 + Len(r) : (Tail(m) \o r)[i] = r[i - (Len(m) - 1)]
  <2>1. /\ Tail(m) \o r \in Seq(T) /\ Len(Tail(m) \o r) = Len(Tail(m)) + Len(r)
        /\ \A i \in 1..Len(Tail(m)) : (Tail(m) \o r)[i] = Tail(m)[i]
        /\ \A i \in Len(Tail(m)) + 1..Len(Tail(m)) + Len(r) :
             (Tail(m) \o r)[i] = r[i - Len(Tail(m))]
    BY <1>2, ConcatProperties
  <2>2. Len(Tail(m)) + 1 = Len(m)
    BY <1>2
  <2> QED BY <1>2, <2>1, <2>2
<1>6. ASSUME NEW i \in 1..Len(m) + Len(r) - 1
      PROVE  Tail(m \o r)[i] = (Tail(m) \o r)[i]
  <2>1. CASE i < Len(m)
    <3>1. i \in 1..Len(m) - 1 /\ i + 1 \in 1..Len(m)
      BY <1>2, <2>1
    <3> QED BY <1>1, <1>2, <1>4, <1>5, <3>1
  <2>2. CASE i >= Len(m)
    <3>1. /\ i \in Len(m)..Len(m) - 1 + Len(r) /\ i + 1 \in Len(m) + 1..Len(m) + Len(r)
          /\ (i + 1) - Len(m) = i - (Len(m) - 1)
      BY <1>2, <2>2
    <3> QED BY <1>1, <1>4, <1>5, <3>1
  <2> QED BY <1>2, <2>1, <2>2
<1>7. Len(Tail(m \o r)) = Len(Tail(m) \o r)
  BY <1>2, <1>4, <1>5
<1>8. Tail(m \o r) = Tail(m) \o r
  BY <1>4, <1>5, <1>6, <1>7, SeqEqual
<1> QED BY <1>1, <1>2, <1>3, <1>8

LEMMA TailCut ==
  ASSUME NEW T, NEW m \in Seq(T), NEW k \in 1..Len(m), m # <<>>
  PROVE  /\ SubSeq(m, 1, k) \in Seq(T) /\ SubSeq(m, 1, k) # <<>> /\ SubSeq(m, 1, k)[1] = m[1]
         /\ Tail(SubSeq(m, 1, k)) = SubSeq(Tail(m), 1, k - 1) /\ k - 1 \in 0..Len(Tail(m))
<1>1. /\ SubSeq(m, 1, k) \in Seq(T) /\ Len(SubSeq(m, 1, k)) = k
      /\ \A i \in 1..k : SubSeq(m, 1, k)[i] = m[i]
  BY SubSeqProperties
<1>2. /\ Tail(m) \in Seq(T) /\ Len(Tail(m)) = Len(m) - 1 /\ Len(m) \in Nat \ {0}
      /\ \A i \in 1..Len(m) - 1 : Tail(m)[i] = m[i + 1]
  BY TailIsSeq
<1>3. SubSeq(m, 1, k) # <<>> /\ SubSeq(m, 1, k)[1] = m[1]
  BY <1>1
<1>4. /\ Tail(SubSeq(m, 1, k)) \in Seq(T) /\ Len(Tail(SubSeq(m, 1, k))) = k - 1
      /\ \A i \in 1..k - 1 : Tail(SubSeq(m, 1, k))[i] = SubSeq(m, 1, k)[i + 1]
  BY <1>1, <1>3, TailIsSeq
<1>5. k - 1 \in 0..Len(Tail(m))
  BY <1>2
<1>6. /\ SubSeq(Tail(m), 1, k - 1) \in Seq(T) /\ Len(SubSeq(Tail(m), 1, k - 1)) = k - 1
      /\ \A i \in 1..k - 1 : SubSeq(Tail(m), 1, k - 1)[i] = Tail(m)[i]
  BY <1>2, <1>5, SubSeqProperties
<1>7. ASSUME NEW i \in 1..k - 1
      PROVE  Tail(SubSeq(m, 1, k))[i] = SubSeq(Tail(m), 1, k - 1)[i]
  <2>1. i \in 1..Len(m) - 1 /\ i + 1 \in 1..k
    BY <1>2
  <2> QED BY <1>1, <1>2, <1>4, <1>6, <2>1
<1>8. Tail(SubSeq(m, 1, k)) = SubSeq(Tail(m), 1, k - 1)
  BY <1>4, <1>6, <1>7, SeqEqual
<1> QED BY <1>1, <1>3, <1>5, <1>8

\* Records written to a stream that holds a whole dump continue it, and so do
\* those written after the answer to a PSYNC.
LEMMA DumpAppend ==
  ASSUME NEW m \in Seq(Message), NEW r \in Seq(Message), NEW n \in Nat,
         NEW h \in Seq(Commands), NEW x, Dump(m, n, h, x), m # <<>>,
         \A i \in 1..Len(m) : m[i] # EOF, Flow(r, n + Len(m) - 1, h)
  PROVE  Dump(m \o r, n, h, x)
<1>1. /\ m \o r \in Seq(Message) /\ m \o r # <<>> /\ (m \o r)[1] = m[1]
      /\ Tail(m \o r) = Tail(m) \o r
  BY TailConcat
<1>2. /\ Tail(m) \in Seq(Message) /\ Len(Tail(m)) = Len(m) - 1 /\ Len(m) \in Nat \ {0}
      /\ \A i \in 1..Len(m) - 1 : Tail(m)[i] = m[i + 1]
  BY TailIsSeq
<1>3. 1 \in 1..Len(m) /\ \A i \in 1..Len(Tail(m)) : Tail(m)[i] # EOF
  BY <1>2
<1>4. ~Silence(m)
  BY <1>3 DEF Silence
<1>5. /\ \E d \in Seq(Commands) : m[1] = Snapshot(d) /\ Covers(d, n, h, x)
      /\ Flow(Tail(m), n, h)
  BY <1>4 DEF Dump
<1>6. n + Len(Tail(m)) = n + Len(m) - 1
  BY <1>2
<1>7. Flow(Tail(m) \o r, n, h)
  BY <1>2, <1>3, <1>5, <1>6, FlowAppend
<1> QED BY <1>1, <1>5, <1>7 DEF Dump

LEMMA DumpCut ==
  ASSUME NEW m \in Seq(Message), NEW k \in 0..Len(m), NEW n \in Nat,
         NEW h \in Seq(Commands), NEW x, Dump(m, n, h, x), \A i \in 1..Len(m) : m[i] # EOF
  PROVE  Dump(SubSeq(m, 1, k) \o <<EOF>>, n, h, x)
<1> DEFINE c == SubSeq(m, 1, k)
<1>1. <<EOF>> \in Seq(Message)
  BY DEF Message
<1>2. CASE k = 0
  <2>1. c = <<>>
    BY <1>2, SubSeqProperties
  <2>2. c \o <<EOF>> = <<EOF>>
    BY <1>1, <2>1, ConcatEmptySeq
  <2> QED BY <2>2 DEF Dump, Silence
<1>3. CASE k # 0
  <2>1. m # <<>> /\ k \in 1..Len(m)
    BY <1>3
  <2>2. /\ Tail(m) \in Seq(Message) /\ Len(Tail(m)) = Len(m) - 1 /\ Len(m) \in Nat \ {0}
        /\ \A i \in 1..Len(m) - 1 : Tail(m)[i] = m[i + 1]
    BY <2>1, TailIsSeq
  <2>3. 1 \in 1..Len(m) /\ \A i \in 1..Len(Tail(m)) : Tail(m)[i] # EOF
    BY <2>2
  <2>4. ~Silence(m)
    BY <2>3 DEF Silence
  <2>5. /\ \E d \in Seq(Commands) : m[1] = Snapshot(d) /\ Covers(d, n, h, x)
        /\ Flow(Tail(m), n, h)
    BY <2>4 DEF Dump
  <2>6. /\ c \in Seq(Message) /\ c # <<>> /\ c[1] = m[1]
        /\ Tail(c) = SubSeq(Tail(m), 1, k - 1) /\ k - 1 \in 0..Len(Tail(m))
    BY <2>1, TailCut
  <2>7. /\ c \o <<EOF>> # <<>> /\ (c \o <<EOF>>)[1] = m[1]
        /\ Tail(c \o <<EOF>>) = SubSeq(Tail(m), 1, k - 1) \o <<EOF>>
    BY <1>1, <2>6, TailConcat
  <2>8. Flow(SubSeq(Tail(m), 1, k - 1) \o <<EOF>>, n, h)
    BY <2>2, <2>3, <2>5, <2>6, FlowCut
  <2> QED BY <2>5, <2>7, <2>8 DEF Dump
<1> QED BY <1>2, <1>3

\* Records written to an open connection at the offset the master keeps for it
\* are what the slave expects there, and move the offset.
LEMMA IncomingAppend ==
  ASSUME NEW st, NEW m \in Seq(Message), NEW r \in Seq(Message), NEW n \in Nat, NEW co \in Nat,
         NEW so \in Nat, NEW h \in Seq(Commands), NEW x,
         Incoming(st, m, n, co, h, x), Position(st, m, n, co, so),
         \A i \in 1..Len(m) : m[i] # EOF, Flow(r, so, h)
  PROVE  /\ m \o r \in Seq(Message)
         /\ Incoming(st, m \o r, n, co, h, x) /\ Position(st, m \o r, n, co, so + Len(r))
<1>0. m \o r \in Seq(Message) /\ Len(m \o r) = Len(m) + Len(r) /\ Len(m) \in Nat /\ Len(r) \in Nat
  BY ConcatProperties
<1>1. CASE st \in {"LOADING_SNAPSHOT", "SYNCED"} /\ so = n + Len(m)
  <2>1. Flow(m \o r, n, h)
    BY <1>1, FlowAppend DEF Incoming
  <2>2. so + Len(r) = n + Len(m \o r)
    BY <1>0, <1>1
  <2> QED BY <1>0, <1>1, <2>1, <2>2 DEF Incoming, Position, Handshake
<1>2. CASE st = "WAITING_SNAPSHOT" /\ m # <<>> /\ so = co + Len(m) - 1
  <2>1. Dump(m \o r, co, h, x)
    BY <1>2, DumpAppend DEF Incoming
  <2>2. m \o r # <<>> /\ so + Len(r) = co + Len(m \o r) - 1
    BY <1>0, <1>2, TailConcat
  <2> QED BY <1>0, <1>2, <2>1, <2>2 DEF Incoming, Position, Handshake
<1>3. CASE st = "WAITING_PSYNC_REPLY" /\ m # <<>> /\ m[1] = Continue /\ so = n + Len(m) - 1
  <2>1. /\ Tail(m) \in Seq(Message) /\ Len(Tail(m)) = Len(m) - 1 /\ Len(m) \in Nat \ {0}
        /\ \A i \in 1..Len(m) - 1 : Tail(m)[i] = m[i + 1]
    BY <1>3, TailIsSeq
  <2>2. \A i \in 1..Len(Tail(m)) : Tail(m)[i] # EOF
    BY <2>1
  <2>3. Answer(m, n, h, x) /\ ~Silence(m)
    <3>1. 1 \in 1..Len(m)
      BY <2>1
    <3> QED BY <1>3, <3>1 DEF Incoming, Silence
  <2>4. \A o : m[1] # FullResync(o)
    BY <1>3, Kinds
  <2>5. Flow(Tail(m), n, h) /\ n + Len(Tail(m)) = so
    BY <1>3, <2>1, <2>3, <2>4 DEF Answer
  <2>6. Flow(Tail(m) \o r, n, h)
    BY <2>1, <2>2, <2>5, FlowAppend
  <2>7. /\ m \o r # <<>> /\ (m \o r)[1] = Continue /\ Tail(m \o r) = Tail(m) \o r
        /\ so + Len(r) = n + Len(m \o r) - 1
    BY <1>0, <1>3, TailConcat
  <2>8. Answer(m \o r, n, h, x)
    BY <2>6, <2>7 DEF Answer
  <2> QED BY <1>0, <1>3, <2>7, <2>8 DEF Incoming, Position, Handshake
<1>4. CASE st = "WAITING_PSYNC_REPLY" /\ Len(m) > 1 /\ m[1] = FullResync(m[1].off)
             /\ so = m[1].off + Len(m) - 2
  <2>1. m # <<>>
    BY <1>4
  <2>2. /\ Tail(m) \in Seq(Message) /\ Len(Tail(m)) = Len(m) - 1 /\ Len(m) \in Nat \ {0}
        /\ \A i \in 1..Len(m) - 1 : Tail(m)[i] = m[i + 1]
    BY <2>1, TailIsSeq
  <2>3. \A i \in 1..Len(Tail(m)) : Tail(m)[i] # EOF
    BY <2>2
  <2>4. Answer(m, n, h, x) /\ ~Silence(m) /\ m[1] # Continue
    <3>1. 1 \in 1..Len(m)
      BY <2>2
    <3>2. m[1] # Continue
      BY <1>4, Kinds
    <3> QED BY <1>4, <3>1, <3>2 DEF Incoming, Silence
  <2>5. PICK o \in 0..Len(h) : m[1] = FullResync(o) /\ Dump(Tail(m), o, h, x)
    BY <2>4 DEF Answer
  <2>6. o = m[1].off /\ o \in Nat
    BY <2>5, Kinds
  <2>7. Tail(m) # <<>> /\ o + Len(Tail(m)) - 1 = so
    <3>1. so = o + Len(m) - 2
      BY <1>4, <2>6, Zenon
    <3>2. Len(Tail(m)) # 0
      BY <1>4, <2>2
    <3>3. Tail(m) # <<>>
      BY <2>2, <3>2, EmptySeq, Zenon
    <3> QED BY <2>2, <2>6, <3>1, <3>3
  <2>8. Dump(Tail(m) \o r, o, h, x)
    BY <2>2, <2>3, <2>5, <2>6, <2>7, DumpAppend
  <2>9. /\ m \o r # <<>> /\ (m \o r)[1] = m[1] /\ Tail(m \o r) = Tail(m) \o r
        /\ Len(m \o r) > 1 /\ so + Len(r) = m[1].off + Len(m \o r) - 2
    <3>1. so = o + Len(m) - 2
      BY <1>4, <2>6, Zenon
    <3>2. Len(m) > 1
      BY <1>4, Zenon
    <3>3. Len(m \o r) > 1
      BY <1>0, <3>2
    <3>4. so + Len(r) = o + Len(m \o r) - 2
      <4>1. o \in Int /\ Len(m) \in Int /\ Len(r) \in Int /\ Len(m \o r) = Len(m) + Len(r)
        BY <1>0
      <4> QED BY <3>1, <4>1
    <3> QED BY <2>1, <2>6, <3>3, <3>4, TailConcat
  <2>10. Answer(m \o r, n, h, x)
    BY <2>5, <2>8, <2>9 DEF Answer
  <2> QED BY <1>0, <1>4, <2>9, <2>10 DEF Incoming, Position, Handshake
<1> QED BY <1>1, <1>2, <1>3, <1>4 DEF Position

\* A stream that is cut and ended is still what the slave expects.
LEMMA IncomingCut ==
  ASSUME NEW st \in SlaveStates, NEW m \in Seq(Message), NEW k \in 0..Len(m), NEW n \in Nat,
         NEW co \in Nat, NEW h \in Seq(Commands), NEW x,
         Incoming(st, m, n, co, h, x), \A i \in 1..Len(m) : m[i] # EOF
  PROVE  /\ SubSeq(m, 1, k) \o <<EOF>> \in Seq(Message)
         /\ Incoming(st, SubSeq(m, 1, k) \o <<EOF>>, n, co, h, x)
<1> DEFINE c == SubSeq(m, 1, k)
<1>1. <<EOF>> \in Seq(Message)
  BY DEF Message
<1>2. c \in Seq(Message) /\ Len(c) = k
  BY SubSeqProperties
<1>3. c \o <<EOF>> \in Seq(Message)
  BY <1>1, <1>2, ConcatProperties
<1>4. ASSUME k = 0 \/ m = <<>> PROVE Silence(c \o <<EOF>>)
  <2>1. c = <<>>
    BY <1>2, <1>4
  <2> QED BY <1>1, <2>1, ConcatEmptySeq DEF Silence
<1>5. ASSUME Answer(m, n, h, x) PROVE Answer(c \o <<EOF>>, n, h, x)
  <2>1. CASE k = 0
    BY <1>4, <2>1 DEF Answer
  <2>2. CASE k # 0
    <3>1. m # <<>> /\ k \in 1..Len(m)
      BY <2>2
    <3>2. /\ Tail(m) \in Seq(Message) /\ Len(Tail(m)) = Len(m) - 1 /\ Len(m) \in Nat \ {0}
          /\ \A i \in 1..Len(m) - 1 : Tail(m)[i] = m[i + 1]
      BY <3>1, TailIsSeq
    <3>3. 1 \in 1..Len(m) /\ \A i \in 1..Len(Tail(m)) : Tail(m)[i] # EOF
      BY <3>2
    <3>4. ~Silence(m)
      BY <3>3 DEF Silence
    <3>5. /\ c # <<>> /\ c[1] = m[1]
          /\ Tail(c) = SubSeq(Tail(m), 1, k - 1) /\ k - 1 \in 0..Len(Tail(m))
      BY <3>1, TailCut
    <3>6. /\ c \o <<EOF>> # <<>> /\ (c \o <<EOF>>)[1] = m[1]
          /\ Tail(c \o <<EOF>>) = SubSeq(Tail(m), 1, k - 1) \o <<EOF>>
      BY <1>1, <1>2, <3>5, TailConcat
    <3>7. CASE m[1] = Continue /\ Flow(Tail(m), n, h)
      <4>1. Flow(SubSeq(Tail(m), 1, k - 1) \o <<EOF>>, n, h)
        BY <3>2, <3>3, <3>5, <3>7, FlowCut
      <4> QED BY <3>6, <3>7, <4>1 DEF Answer
    <3>8. CASE \E o \in 0..Len(h) : m[1] = FullResync(o) /\ Dump(Tail(m), o, h, x)
      <4>1. PICK o \in 0..Len(h) : m[1] = FullResync(o) /\ Dump(Tail(m), o, h, x)
        BY <3>8
      <4>2. Dump(SubSeq(Tail(m), 1, k - 1) \o <<EOF>>, o, h, x)
        <5>1. o \in Nat
          OBVIOUS
        <5> QED BY <3>2, <3>3, <3>5, <4>1, <5>1, DumpCut
      <4> QED BY <3>6, <4>1, <4>2 DEF Answer
    <3> QED BY <1>5, <3>4, <3>7, <3>8 DEF Answer
  <2> QED BY <2>1, <2>2
<1>6. ASSUME Silence(m) PROVE Silence(c \o <<EOF>>)
  <2>1. m = <<>>
    BY <1>6 DEF Silence
  <2> QED BY <1>4, <2>1
<1> QED BY <1>3, <1>5, <1>6, FlowCut, DumpCut DEF Incoming
-----------------------------------------------------------------------------
(***************************************************************************)
(* Logs, stores and what they cover.                                       *)
(***************************************************************************)
LEMMA AppendFacts ==
  ASSUME NEW T, NEW l \in Seq(T), NEW c \in T
  PROVE  /\ Append(l, c) \in Seq(T) /\ Len(Append(l, c)) = Len(l) + 1
         /\ Prefix(l, Append(l, c)) /\ Append(l, c)[Len(l) + 1] = c
         /\ Elements(Append(l, c)) = Elements(l) \cup {c}
<1>1. /\ Append(l, c) \in Seq(T) /\ Len(Append(l, c)) = Len(l) + 1 /\ Len(l) \in Nat
      /\ \A i \in 1..Len(l) : Append(l, c)[i] = l[i]
      /\ Append(l, c)[Len(l) + 1] = c
      /\ DOMAIN l = 1..Len(l) /\ DOMAIN Append(l, c) = 1..Len(l) + 1
  BY AppendProperties
<1>2. Prefix(l, Append(l, c))
  BY <1>1 DEF Prefix
<1>3. ASSUME NEW e PROVE e \in Elements(Append(l, c)) <=> e \in Elements(l) \cup {c}
  <2>1. ASSUME e \in Elements(Append(l, c)) PROVE e \in Elements(l) \cup {c}
    <3>1. PICK i \in 1..Len(l) + 1 : e = Append(l, c)[i]
      BY <1>1, <2>1 DEF Elements
    <3>2. i \in 1..Len(l) \/ i = Len(l) + 1
      BY <1>1
    <3> QED BY <1>1, <3>1, <3>2 DEF Elements
  <2>2. ASSUME e \in Elements(l) PROVE e \in Elements(Append(l, c))
    <3>1. PICK i \in 1..Len(l) : e = l[i]
      BY <1>1, <2>2 DEF Elements
    <3>2. i \in 1..Len(l) + 1
      BY <1>1
    <3> QED BY <1>1, <3>1, <3>2 DEF Elements
  <2>3. c \in Elements(Append(l, c))
    <3>1. Len(l) + 1 \in 1..Len(l) + 1
      BY <1>1
    <3> QED BY <1>1, <3>1 DEF Elements
  <2> QED BY <2>1, <2>2, <2>3
<1> QED BY <1>1, <1>2, <1>3

LEMMA PrefixFacts ==
  ASSUME NEW l \in Seq(Commands), NEW m \in Seq(Commands), NEW g \in Seq(Commands)
  PROVE  /\ Prefix(l, l)
         /\ Prefix(l, m) /\ Prefix(m, g) => Prefix(l, g)
         /\ Prefix(l, m) => l = SubSeq(m, 1, Len(l))
         /\ \A n \in 0..Len(m) : Prefix(SubSeq(m, 1, n), m)
                                   /\ SubSeq(m, 1, n) \in Seq(Commands) /\ Len(SubSeq(m, 1, n)) = n
         /\ Prefix(l, m) /\ Len(l) < Len(m) => Prefix(Append(l, m[Len(l) + 1]), m)
<1>1. Prefix(l, l) /\ (Prefix(l, m) /\ Prefix(m, g) => Prefix(l, g))
  BY DEF Prefix
<1>2. ASSUME Prefix(l, m) PROVE l = SubSeq(m, 1, Len(l))
  <2>1. /\ Len(l) \in 0..Len(m) /\ SubSeq(m, 1, Len(l)) \in Seq(Commands)
        /\ Len(SubSeq(m, 1, Len(l))) = Len(l)
        /\ \A i \in 1..Len(l) : SubSeq(m, 1, Len(l))[i] = m[i]
    BY <1>2, SubSeqProperties DEF Prefix
  <2> QED BY <1>2, <2>1, SeqEqual DEF Prefix
<1>3. ASSUME NEW n \in 0..Len(m)
      PROVE  Prefix(SubSeq(m, 1, n), m) /\ SubSeq(m, 1, n) \in Seq(Commands)
               /\ Len(SubSeq(m, 1, n)) = n
  BY SubSeqProperties DEF Prefix
<1>4. ASSUME Prefix(l, m), Len(l) < Len(m) PROVE Prefix(Append(l, m[Len(l) + 1]), m)
  <2>1. Len(l) + 1 \in 1..Len(m) /\ m[Len(l) + 1] \in Commands
    BY <1>4, ElementOfSeq
  <2>2. /\ Len(Append(l, m[Len(l) + 1])) = Len(l) + 1
        /\ \A i \in 1..Len(l) : Append(l, m[Len(l) + 1])[i] = l[i]
        /\ Append(l, m[Len(l) + 1])[Len(l) + 1] = m[Len(l) + 1]
    BY <2>1, AppendProperties
  <2> QED BY <1>4, <2>1, <2>2 DEF Prefix
<1> QED BY <1>1, <1>2, <1>3, <1>4

\* A store that is given the next command of the log, or one of the log again.
LEMMA CoversApply ==
  ASSUME NEW d \in Seq(Commands), NEW o \in Nat, NEW h \in Seq(Commands), NEW x \in Seq(Commands),
         Covers(d, o, h, x), NEW c \in Commands, c \in Elements(x) \cup {PING}
  PROVE  /\ c # PING => Covers(Append(d, c), o, h, x)
         /\ o < Len(h) /\ c = h[o + 1] =>
              Covers(IF c = PING THEN d ELSE Append(d, c), o + 1, h, x)
<1>1. Elements(Append(d, c)) = Elements(d) \cup {c}
  BY AppendFacts
<1>2. ASSUME c # PING PROVE Covers(Append(d, c), o, h, x)
  BY <1>1, <1>2 DEF Covers
<1>3. ASSUME o < Len(h), c = h[o + 1]
      PROVE  Covers(IF c = PING THEN d ELSE Append(d, c), o + 1, h, x)
  <2>1. o + 1 \in 0..Len(h) /\ \A j \in 1..o + 1 : j \in 1..o \/ j = o + 1
    BY <1>3
  <2>2. CASE c = PING
    BY <1>3, <2>1, <2>2 DEF Covers
  <2>3. CASE c # PING
    BY <1>1, <1>3, <2>1, <2>3 DEF Covers
  <2> QED BY <2>2, <2>3
<1> QED BY <1>2, <1>3
-----------------------------------------------------------------------------
(***************************************************************************)
(* What a step leaves alone.                                               *)
(***************************************************************************)
LEMMA SlaveFrame ==
  ASSUME NEW s \in Slaves, Grows, SameSlave(s), Shape
  PROVE  /\ Logged(s) => Logged(s)'
         /\ Stored(s) => Stored(s)'
<1>1. wal[s] \in Seq(Commands)
  BY DEF Shape, SlaveShape
<1>2. Prefix(wal[s], history) => Prefix(wal[s], history')
  BY <1>1, PrefixFacts DEF Grows
<1>3. Len(history) <= Len(history') /\ Len(history) \in Nat /\ Len(history') \in Nat
      /\ cached_offset[s] \in Nat
  BY DEF Grows, Prefix, Shape, SlaveShape
<1>4. Logged(s) => Logged(s)'
  BY <1>2, <1>3 DEF Logged, SameSlave
<1>5. \A d, n : Covers(d, n, history, store) => Covers(d, n, history', store')
  BY CoversGrows DEF Grows
<1>6. Stored(s) => Stored(s)'
  BY <1>5 DEF Stored, SameSlave
<1> QED BY <1>4, <1>6

LEMMA LinkFrame ==
  ASSUME NEW s \in Slaves, Grows, SameSlave(s), SameLink(s), Shape
  PROVE  Local(s) => Local(s)'
<1>1. \A d, n : Covers(d, n, history, store) => Covers(d, n, history', store')
  BY CoversGrows DEF Grows
<1>2. Len(history) <= Len(history') /\ Len(history) \in Nat /\ Len(history') \in Nat
      /\ sync_offset[s] \in Nat
  BY DEF Grows, Prefix, Shape, MasterShape
<1>3. Ends(s) => Ends(s)'
  BY <1>2 DEF Ends, SameLink, SameSlave
<1>4. Asked(s) => Asked(s)'
  <2>1. ASSUME request[s] # <<>>, Len(request[s]) = 1, Prefix(request[s][1].wal, history)
        PROVE  Prefix(request[s][1].wal, history')
    <3>1. request[s] \in Seq(Request)
      BY DEF Shape, LinkShape
    <3>2. request[s][1] \in Request
      BY <2>1, <3>1
    <3>3. request[s][1].wal \in Seq(Commands)
      BY <3>2 DEF Request
    <3> QED BY <2>1, <3>3, PrefixFacts DEF Grows
  <2> QED BY <2>1 DEF Asked, SameLink, SameSlave
<1>5. Reads(s) => Reads(s)'
  <2>1. stream[s] \in Seq(Message) /\ Len(wal[s]) \in Nat /\ cached_offset[s] \in Nat
    BY DEF Shape, LinkShape, SlaveShape
  <2>2. Incoming(state[s], stream[s], Len(wal[s]), cached_offset[s], history, store)
          => Incoming(state[s], stream[s], Len(wal[s]), cached_offset[s], history', store')
    BY <2>1, IncomingGrows DEF Grows
  <2> QED BY <2>2 DEF Reads, SameLink, SameSlave
<1>6. Writes(s) => Writes(s)'
  BY <1>1 DEF Writes, Open, SameLink, SameSlave
<1> QED BY <1>3, <1>4, <1>5, <1>6, SlaveFrame DEF Local

LEMMA SameHistoryGrows ==
  ASSUME Shape, UNCHANGED <<history, store>>
  PROVE  Grows
  BY PrefixFacts DEF Grows, Shape, MasterShape
-----------------------------------------------------------------------------
(***************************************************************************)
(* Feeding slaves.                                                         *)
(***************************************************************************)

LEMMA WritingTwice ==
  ASSUME NEW a \in Seq(Message), NEW b \in Seq(Message), NEW c \in Seq(Message)
  PROVE  a \o (b \o c) = (a \o b) \o c
  BY ConcatAssociative

Ended(m) == m \o <<EOF>>

\* Slave s, and the state ss, offset o and file fs the master keeps for it,
\* agree about stream m.
Fit(s, en, ss, o, m, fs, h, x) ==
  /\ Incoming(state[s], m, Len(wal[s]), cached_offset[s], h, x)
  /\ Open(en, ss, o, m, fs, state[s], Len(wal[s]), cached_offset[s], h, x)

\* What the handler that calls Sync(S, st, so, wr, out, h, start) leaves of the
\* connection of s: its ends, state, offset and stream.
Left(s, st, so, out, en, ss, o, m) ==
  en = ends[s] /\ ss = st[s] /\ o = so[s] /\ m = Written(s, out[s])

\* Sync keeps the types of the master's tables of slaves.
LEMMA SyncShape ==
  ASSUME LinkShape, NEW S, NEW st, NEW so, NEW wr, NEW out, NEW h, NEW start,
         Sync(S, st, so, wr, out, h, start),
         st \in [Slaves -> SyncStates], wr \in [Slaves -> {"off", "once", "on"}],
         h \in Seq(Commands)
  PROVE  /\ sync_state' \in [Slaves -> SyncStates]
         /\ writing' \in [Slaves -> {"off", "once", "on"}]
         /\ ends' \in [Slaves -> SUBSET {"master", "slave"}]
         /\ sync_offset' = [s \in Slaves |-> sync_offset'[s]]
         /\ stream' = [s \in Slaves |-> stream'[s]]
<1>1. sync_state' \in [Slaves -> SyncStates]
  BY DEF Sync, SyncStates
<1>2. writing' \in [Slaves -> {"off", "once", "on"}]
  BY DEF Sync
<1>3. ends' \in [Slaves -> SUBSET {"master", "slave"}]
  BY DEF Sync, LinkShape
<1>4. sync_offset' = [s \in Slaves |-> sync_offset'[s]]
  BY DEF Sync
<1>5. stream' = [s \in Slaves |-> stream'[s]]
  BY DEF Sync
<1> QED BY <1>1, <1>2, <1>3, <1>4, <1>5

\* What Sync does for one slave, whose stream is m once the handler has
\* written out[s]: it is left alone, closed, or fed from its offset.
LEMMA SyncCases ==
  ASSUME LinkShape, NEW S, NEW st, NEW so, NEW wr, NEW out, NEW h, NEW start, NEW s,
         Sync(S, st, so, wr, out, h, start), s \in Slaves,
         so \in [Slaves -> Nat], out \in [Slaves -> Seq(Message)], h \in Seq(Commands),
         so[s] <= Len(h)
  PROVE  \/ /\ sync_state'[s] = st[s] /\ ends'[s] = ends[s]
            /\ sync_offset'[s] = so[s] /\ stream'[s] = Written(s, out[s])
         \/ /\ s \in S /\ sync_state'[s] = "NULL" /\ ends'[s] = ends[s] \ {"master"}
            /\ sync_offset'[s] = so[s]
            /\ stream'[s] = IF "slave" \in ends[s] THEN Ended(Written(s, out[s]))
                            ELSE Written(s, out[s])
         \/ \E to \in Nat :
            /\ s \in S /\ sync_state'[s] = st[s] /\ ends'[s] = ends[s]
            /\ so[s] <= to /\ to <= Len(h) /\ sync_offset'[s] = to
            /\ stream'[s] = IF "slave" \in ends[s]
                            THEN Written(s, out[s]) \o Records(h, so[s], to)
                            ELSE Written(s, out[s])
<1> DEFINE lost == Outside(S, so, h, start)
           fed == {t \in S \ lost : so[t] < Len(h)}
           m == Written(s, out[s])
           to == Reached(so[s], h)
<1>1. /\ sync_state'[s] = IF s \in lost THEN "NULL" ELSE st[s]
      /\ sync_offset'[s] = IF s \in fed THEN to ELSE so[s]
      /\ stream'[s] = Written(s, out[s] \o IF s \in fed THEN Records(h, so[s], to)
                                           ELSE IF s \in lost THEN <<EOF>> ELSE <<>>)
      /\ ends'[s] = IF s \in lost THEN ends[s] \ {"master"} ELSE ends[s]
  BY DEF Sync
<1>2. stream[s] \in Seq(Message) /\ out[s] \in Seq(Message) /\ <<EOF>> \in Seq(Message)
  BY Messages DEF LinkShape
<1>3. \A r \in Seq(Message) : Written(s, out[s] \o r) = IF "slave" \in ends[s] THEN m \o r ELSE m
  <2>1. SUFFICES ASSUME NEW r \in Seq(Message), "slave" \in ends[s]
                 PROVE  stream[s] \o (out[s] \o r) = (stream[s] \o out[s]) \o r
    BY DEF Written
  <2> QED BY <1>2, WritingTwice, ZenonT(40)
<1>4. m \in Seq(Message) /\ m \o <<>> = m /\ <<>> \in Seq(Message)
  BY <1>2, ConcatProperties, ConcatEmptySeq DEF Written
<1>5. CASE s \in fed
  <2>1. to \in Nat /\ so[s] <= to /\ to <= Len(h) /\ s \in S /\ s \notin lost
    <3>1. so[s] \in Nat /\ Len(h) \in Nat /\ so[s] < Len(h) /\ MAX_SEND_CACHE_SIZE \in Nat \ {0}
      BY <1>5, MasterAssumption
    <3>2. to = IF so[s] + MAX_SEND_CACHE_SIZE < Len(h) THEN so[s] + MAX_SEND_CACHE_SIZE ELSE Len(h)
      BY DEF Reached, Smaller
    <3> QED BY <1>5, <3>1, <3>2
  <2>2. Records(h, so[s], to) \in Seq(Message)
    BY <2>1, RecordsFlow
  <2> QED BY <1>1, <1>3, <1>5, <2>1, <2>2
<1>6. CASE s \in lost
  <2>1. s \in S /\ s \notin fed
    BY <1>6 DEF Outside
  <2> QED BY <1>1, <1>2, <1>3, <1>6, <2>1 DEF Ended
<1>7. CASE s \notin fed /\ s \notin lost
  BY <1>1, <1>3, <1>4, <1>7
<1> QED BY <1>5, <1>6, <1>7

\* If the stream a handler leaves is what the slave expects, and what the
\* offset says, then so is the stream after Sync; or the connection is closed.
LEMMA SyncStep ==
  ASSUME Shape, NEW S, NEW st, NEW so, NEW wr, NEW out, NEW h, NEW start,
         NEW s, NEW en, NEW ss, NEW o, NEW m, NEW fs, NEW x,
         Sync(S, st, so, wr, out, h, start), Fit(s, en, ss, o, m, fs, h, x),
         s \in Slaves, Left(s, st, so, out, en, ss, o, m),
         so \in [Slaves -> Nat], out \in [Slaves -> Seq(Message)], h \in Seq(Commands),
         o <= Len(h), s \in S => ss = "SYNCED",
         "master" \notin en => ss \in {"absent", "NULL"},
         "slave" \notin en => state[s] = "INVALID"
  PROVE  /\ stream'[s] \in Seq(Message)
         /\ Fit(s, ends'[s], sync_state'[s], sync_offset'[s], stream'[s], fs, h, x)
         /\ "slave" \notin en => stream'[s] = stream[s]
         /\ sync_offset'[s] \in Nat /\ sync_offset'[s] <= Len(h)
         /\ \/ sync_state'[s] = "NULL" /\ ends'[s] = en \ {"master"} /\ ss = "SYNCED"
            \/ sync_state'[s] = ss /\ ends'[s] = en
<1> DEFINE n == Len(wal[s])
           co == cached_offset[s]
<1>11. en = ends[s] /\ ss = st[s] /\ o = so[s] /\ m = Written(s, out[s])
  BY DEF Left
<1>0. /\ n \in Nat /\ co \in Nat /\ state[s] \in SlaveStates /\ en \in SUBSET {"master", "slave"}
      /\ stream[s] \in Seq(Message) /\ out[s] \in Seq(Message) /\ o \in Nat
      /\ <<EOF>> \in Seq(Message)
  BY <1>11, Messages DEF Shape, LinkShape, SlaveShape
<1>10. /\ Incoming(state[s], m, n, co, h, x)
       /\ Open(en, ss, o, m, fs, state[s], n, co, h, x)
  BY DEF Fit
<1>1. m \in Seq(Message) /\ Len(m) \in Nat
  BY <1>0, <1>11, ConcatProperties DEF Written
<1>2. "slave" \notin en => m = stream[s]
  BY <1>11 DEF Written
<1>3. ASSUME "slave" \notin en
      PROVE  \A z : Incoming(state[s], z, n, co, h, x)
  BY <1>3 DEF Incoming, Handshake
<1>4. \/ /\ sync_state'[s] = ss /\ ends'[s] = en
         /\ sync_offset'[s] = o /\ stream'[s] = m
      \/ /\ s \in S /\ sync_state'[s] = "NULL" /\ ends'[s] = en \ {"master"}
         /\ sync_offset'[s] = o
         /\ stream'[s] = IF "slave" \in en THEN Ended(m) ELSE m
      \/ \E to \in Nat :
         /\ s \in S /\ sync_state'[s] = ss /\ ends'[s] = en
         /\ o <= to /\ to <= Len(h) /\ sync_offset'[s] = to
         /\ stream'[s] = IF "slave" \in en THEN m \o Records(h, o, to) ELSE m
  <2>1. LinkShape
    BY DEF Shape
  <2> QED BY <1>11, <2>1, SyncCases, SMTT(30)
<1>5. CASE /\ sync_state'[s] = ss /\ ends'[s] = en
           /\ sync_offset'[s] = o /\ stream'[s] = m
  BY <1>0, <1>1, <1>2, <1>5
<1>9. ASSUME NEW e, e = en \ {"master"}
      PROVE  \A q, k, z : Open(e, q, k, z, fs, state[s], n, co, h, x)
  <2>1. e # {"master", "slave"}
    BY <1>9
  <2> QED BY <2>1 DEF Open
<1>6. CASE /\ s \in S /\ sync_state'[s] = "NULL" /\ ends'[s] = en \ {"master"}
           /\ sync_offset'[s] = o
           /\ stream'[s] = IF "slave" \in en THEN Ended(m) ELSE m
  <2>1. CASE "slave" \notin en
    BY <1>0, <1>1, <1>2, <1>3, <1>6, <1>9, <2>1 DEF Fit
  <2>2. CASE "slave" \in en
    <3>1. en = {"master", "slave"} /\ \A i \in 1..Len(m) : m[i] # EOF
      BY <1>0, <1>6, <1>10, <2>2 DEF Open
    <3>2. SubSeq(m, 1, Len(m)) = m /\ Len(m) \in 0..Len(m)
      BY <1>1, SubSeqFull
    <3>3. Ended(m) \in Seq(Message) /\ Incoming(state[s], Ended(m), n, co, h, x)
      BY <1>0, <1>1, <1>10, <3>1, <3>2, IncomingCut DEF Ended
    <3> QED BY <1>0, <1>6, <1>9, <2>2, <3>3 DEF Fit
  <2> QED BY <2>1, <2>2
<1>7. ASSUME NEW to \in Nat,
           /\ s \in S /\ sync_state'[s] = ss /\ ends'[s] = en
           /\ o <= to /\ to <= Len(h) /\ sync_offset'[s] = to
           /\ stream'[s] = IF "slave" \in en THEN m \o Records(h, o, to) ELSE m
      PROVE  /\ stream'[s] \in Seq(Message)
             /\ Incoming(state[s], stream'[s], n, co, h, x)
             /\ "slave" \notin en => stream'[s] = stream[s]
             /\ sync_offset'[s] \in Nat /\ sync_offset'[s] <= Len(h)
             /\ ss = "SYNCED"
             /\ Open(en, "SYNCED", to, stream'[s], fs, state[s], n, co, h, x)
  <2>1. CASE "slave" \notin en
    <3>1. Open(en, "SYNCED", to, stream'[s], fs, state[s], n, co, h, x)
      BY <2>1 DEF Open
    <3> QED BY <1>0, <1>1, <1>2, <1>3, <1>7, <2>1, <3>1
  <2>2. CASE "slave" \in en
    <3>1. /\ en = {"master", "slave"} /\ \A i \in 1..Len(m) : m[i] # EOF
          /\ Position(state[s], m, n, co, o)
      BY <1>0, <1>7, <1>10, <2>2 DEF Open
    <3> DEFINE r == Records(h, o, to)
    <3>2. /\ r \in Seq(Message) /\ Len(r) = to - o /\ Flow(r, o, h)
          /\ \A i \in 1..Len(r) : r[i] # EOF
      BY <1>0, <1>7, RecordsFlow
    <3>3. /\ m \o r \in Seq(Message) /\ Incoming(state[s], m \o r, n, co, h, x)
          /\ Position(state[s], m \o r, n, co, o + Len(r))
      BY <1>0, <1>1, <1>7, <1>10, <3>1, <3>2, IncomingAppend
    <3>4. o + Len(r) = to
      BY <1>0, <1>7, <3>2
    <3>5. \A i \in 1..Len(m \o r) : (m \o r)[i] # EOF
      <4>1. /\ Len(m \o r) = Len(m) + Len(r)
            /\ \A i \in 1..Len(m) : (m \o r)[i] = m[i]
            /\ \A i \in Len(m) + 1..Len(m) + Len(r) : (m \o r)[i] = r[i - Len(m)]
        BY <1>1, <3>2, ConcatProperties
      <4>2. SUFFICES ASSUME NEW i \in 1..Len(m) + Len(r) PROVE (m \o r)[i] # EOF
        BY <4>1
      <4>3. Len(r) \in Nat
        BY <3>2
      <4>4. CASE i <= Len(m)
        BY <1>1, <3>1, <4>1, <4>4
      <4>5. CASE i > Len(m)
        <5>1. i \in Len(m) + 1..Len(m) + Len(r) /\ i - Len(m) \in 1..Len(r)
          BY <1>1, <4>3, <4>5
        <5> QED BY <3>2, <4>1, <5>1
      <4> QED BY <1>1, <4>4, <4>5
    <3>6. Open(en, "SYNCED", to, m \o r, fs, state[s], n, co, h, x)
      BY <3>3, <3>4, <3>5 DEF Open
    <3> QED BY <1>7, <2>2, <3>3, <3>6
  <2> QED BY <2>1, <2>2
<1> QED BY <1>4, <1>5, <1>6, <1>7 DEF Fit

\* A slave fed or closed by Sync, after a handler of the master that left
\* state st[s], offset so[s], file fs and stream Written(s, out[s]).
LEMMA SyncLocal ==
  ASSUME Shape, NEW S, NEW st, NEW so, NEW wr, NEW out, NEW h, NEW start,
         NEW s, NEW en, NEW ss, NEW o, NEW m, NEW fs, NEW x,
         Sync(S, st, so, wr, out, h, start), Fit(s, en, ss, o, m, fs, h, x),
         s \in Slaves, Left(s, st, so, out, en, ss, o, m),
         so \in [Slaves -> Nat], out \in [Slaves -> Seq(Message)], h \in Seq(Commands),
         o <= Len(h), s \in S => ss = "SYNCED",
         "master" \notin en => ss \in {"absent", "NULL"},
         h = history', x = store', fs = file_sending'[s], SameSlave(s), Grows,
         Logged(s), Stored(s), state[s] = "INVALID" <=> "slave" \notin en,
         "slave" \notin en => stream[s] = <<>>, ss = "SYNCING_SNAPSHOT" => fs # None,
         request'[s] \in Seq(Request),
         request'[s] # <<>> => request'[s] = request[s] /\ Asked(s) /\ "master" \in en
                                /\ ss = sync_state[s]
  PROVE  stream'[s] \in Seq(Message) /\ sync_offset'[s] \in Nat /\ Local(s)'
<1>1. en = ends[s] /\ ss = st[s] /\ o = so[s] /\ m = Written(s, out[s])
  BY DEF Left
<1>2. "slave" \notin en => state[s] = "INVALID"
  OBVIOUS
<1>3. /\ stream'[s] \in Seq(Message)
      /\ Fit(s, ends'[s], sync_state'[s], sync_offset'[s], stream'[s], fs, h, x)
      /\ "slave" \notin en => stream'[s] = stream[s]
      /\ sync_offset'[s] \in Nat /\ sync_offset'[s] <= Len(h)
      /\ \/ sync_state'[s] = "NULL" /\ ends'[s] = en \ {"master"} /\ ss = "SYNCED"
         \/ sync_state'[s] = ss /\ ends'[s] = en
  BY <1>2, SyncStep, SMTT(30)
<1>4. Logged(s)' /\ Stored(s)'
  BY SlaveFrame
<1>5. Reads(s)'
  BY <1>3 DEF Fit, Reads, SameSlave
<1>6. Writes(s)'
  BY <1>3 DEF Fit, Writes, SameSlave
<1>7. /\ "slave" \in ends'[s] <=> "slave" \in en
      /\ "master" \notin ends'[s] => sync_state'[s] \in {"absent", "NULL"}
      /\ sync_state'[s] = ss \/ ss = "SYNCED"
      /\ "master" \in ends'[s] \/ "master" \notin en \/ ss = "SYNCED"
  BY <1>3
<1>8. Asked(s)'
  <2>1. SUFFICES ASSUME request'[s] # <<>> PROVE Asked(s)'
    BY DEF Asked
  <2>2. /\ request'[s] = request[s] /\ Asked(s) /\ "master" \in en /\ ss = sync_state[s]
        /\ request[s] # <<>>
    BY <2>1
  <2>3. ss # "SYNCED" /\ sync_state'[s] = sync_state[s]
    BY <1>7, <2>2 DEF Asked
  <2>4. Prefix(request[s][1].wal, history')
    <3>1. Len(request[s]) = 1 /\ Prefix(request[s][1].wal, history)
      BY <2>2 DEF Asked
    <3>2. request[s][1] \in Request
      BY <2>2, <3>1
    <3>3. request[s][1].wal \in Seq(Commands)
      BY <3>2 DEF Request
    <3> QED BY <3>1, <3>3, PrefixFacts DEF Grows
  <2> QED BY <1>1, <1>7, <2>2, <2>3, <2>4 DEF Asked, SameSlave
<1>9. Ends(s)'
  <2>1. "master" \notin ends'[s] => request'[s] = <<>>
    <3>1. SUFFICES ASSUME "master" \notin ends'[s], request'[s] # <<>> PROVE FALSE
      OBVIOUS
    <3>2. "master" \in en /\ ss = sync_state[s] /\ sync_state[s] \in {"absent", "NULL"}
      BY <3>1 DEF Asked
    <3> QED BY <1>7, <3>1, <3>2
  <2>2. "slave" \notin ends'[s] => stream'[s] = <<>>
    BY <1>3, <1>7
  <2>3. state'[s] = state[s]
    BY DEF SameSlave
  <2> QED BY <1>3, <1>7, <2>1, <2>2, <2>3 DEF Ends
<1> QED BY <1>3, <1>4, <1>5, <1>6, <1>8, <1>9 DEF Local
-----------------------------------------------------------------------------
(***************************************************************************)
(* Steps of the master.                                                    *)
(***************************************************************************)
LEMMA SlavesStill ==
  ASSUME Shape, UNCHANGED slaveVars
  PROVE  SlaveShape' /\ \A s \in Slaves : SameSlave(s)
  BY DEF Shape, SlaveShape, SameSlave, slaveVars, dataVars, statusVars, replayVars

LEMMA LinksStill ==
  ASSUME Shape, UNCHANGED <<linkVars, slaveConnVars>>
  PROVE  /\ LinkShape' /\ \A s \in Slaves : SameLink(s)
         /\ sync_state' \in [Slaves -> SyncStates] /\ sync_offset' \in [Slaves -> Nat]
         /\ writing' \in [Slaves -> {"off", "once", "on"}]
         /\ file_sending' \in [Slaves -> Seq(Commands) \cup {None}]
  BY DEF Shape, LinkShape, MasterShape, SameLink, linkVars, connVars, slaveConnVars

\* A step that leaves connections and slaves alone.
LEMMA AllLinksFrame ==
  ASSUME RInv, Grows, UNCHANGED <<linkVars, slaveConnVars, slaveVars>>
  PROVE  \A s \in Slaves : Local(s)'
<1>1. \A s \in Slaves : SameSlave(s) /\ SameLink(s)
  BY SlavesStill, LinksStill DEF RInv
<1> QED BY <1>1, LinkFrame DEF RInv

\* Call executes a command: the store grows.
LEMMA CallStep ==
  ASSUME RInv, NEW w \in Workers, Call(w), UNCHANGED slaveVars
  PROVE  RInv'
<1> DEFINE c == Len(store) + 1
<1>0. /\ store \in Seq(Commands) /\ history \in Seq(Commands) /\ posting \in [Workers -> Commands]
      /\ store' = Append(store, c) /\ posting' = [posting EXCEPT ![w] = c]
      /\ UNCHANGED <<queue, logVars, saveVars, slaveConnVars, pings, linkVars>>
  BY DEF RInv, Shape, MasterShape, Call
<1>1. c \in Commands
  BY <1>0, MasterAssumption DEF Call, Commands
<1>2. store' \in Seq(Commands) /\ Elements(store') = Elements(store) \cup {c}
  BY <1>0, <1>1, AppendFacts
<1>3. Grows
  BY <1>0, <1>2, PrefixFacts DEF Grows, logVars
<1>4. posting' \in [Workers -> Commands] /\ \A v \in Workers : posting'[v] \in {posting[v], c}
  BY <1>0, <1>1
<1>5. Shape'
  BY <1>0, <1>2, <1>4, SlavesStill, LinksStill DEF RInv, Shape, MasterShape, logVars, saveVars
<1>6. Executed'
  BY <1>0, <1>2, <1>4 DEF RInv, Executed, logVars
<1>7. Saving'
  <2>1. \A d, n : Covers(d, n, history, store) => Covers(d, n, history', store')
    BY <1>3, CoversGrows DEF Grows
  <2> QED BY <1>0, <2>1 DEF RInv, Saving, saveVars, slaveConnVars
<1>8. \A s \in Slaves : Local(s)'
  BY <1>0, <1>3, AllLinksFrame
<1> QED BY <1>5, <1>6, <1>7, <1>8 DEF RInv

\* WriteWAL posts a command that was executed.
LEMMA WriteWALStep ==
  ASSUME RInv, NEW w \in Workers, WriteWAL(w), UNCHANGED slaveVars
  PROVE  RInv'
<1>0. /\ queue \in Seq(Commands) /\ posting \in [Workers -> Commands]
      /\ posting[w] # PING
      /\ queue' = Append(queue, posting[w]) /\ posting' = [posting EXCEPT ![w] = PING]
      /\ UNCHANGED <<store, logVars, saveVars, slaveConnVars, pings, linkVars>>
  BY DEF RInv, Shape, MasterShape, WriteWAL
<1>1. posting[w] \in Commands /\ PING \in Commands
  BY <1>0, MasterAssumption DEF Commands, PING
<1>2. queue' \in Seq(Commands) /\ Elements(queue') = Elements(queue) \cup {posting[w]}
  BY <1>0, <1>1, AppendFacts
<1>3. Grows
  BY <1>0, SameHistoryGrows DEF RInv, logVars
<1>4. posting' \in [Workers -> Commands] /\ \A v \in Workers : posting'[v] \in {posting[v], PING}
  BY <1>0, <1>1
<1>5. Shape'
  BY <1>0, <1>2, <1>4, SlavesStill, LinksStill DEF RInv, Shape, MasterShape, logVars, saveVars
<1>6. Executed'
  BY <1>0, <1>2, <1>4 DEF RInv, Executed, logVars
<1>7. Saving'
  BY <1>0 DEF RInv, Saving, saveVars, slaveConnVars, logVars
<1>8. \A s \in Slaves : Local(s)'
  BY <1>0, <1>3, AllLinksFrame
<1> QED BY <1>5, <1>6, <1>7, <1>8 DEF RInv

\* Backup copies a store that has everything logged so far.
LEMMA BackupStep ==
  ASSUME RInv, Backup, UNCHANGED slaveVars
  PROVE  RInv'
<1>0. /\ store \in Seq(Commands) /\ history \in Seq(Commands)
      /\ snapshot_saving \in -1..Len(history) /\ snapshot_saving # -1 /\ backup' = store
      /\ UNCHANGED <<workVars, logVars, snapshot_saving, save_errors, slaveConnVars, pings, linkVars>>
  BY DEF RInv, Shape, MasterShape, Backup
<1>3. Grows
  BY <1>0, SameHistoryGrows DEF RInv, logVars, workVars
<1>5. Shape'
  BY <1>0, SlavesStill, LinksStill DEF RInv, Shape, MasterShape, logVars, workVars
<1>6. Executed'
  BY <1>0 DEF RInv, Executed, logVars, workVars
<1>7. Saving'
  <2>1. ASSUME NEW j \in 1..snapshot_saving, history[j] # PING PROVE history[j] \in Elements(store)
    <3>1. j \in DOMAIN history
      BY <1>0
    <3>2. history[j] \in Elements(history)
      BY <3>1 DEF Elements
    <3> QED BY <2>1, <3>2 DEF RInv, Executed
  <2>2. Covers(store, snapshot_saving, history, store)
    BY <1>0, <2>1 DEF Covers
  <2> QED BY <1>0, <2>2 DEF RInv, Saving, slaveConnVars, logVars, workVars
<1>8. \A s \in Slaves : Local(s)'
  BY <1>0, <1>3, AllLinksFrame
<1> QED BY <1>5, <1>6, <1>7, <1>8 DEF RInv

LEMMA ClearNilSlaveStep ==
  ASSUME RInv, ClearNilSlave, UNCHANGED slaveVars
  PROVE  RInv'
<1>0. /\ sync_state \in [Slaves -> SyncStates]
      /\ sync_state' = [s \in Slaves |-> IF sync_state[s] = "NULL" THEN "absent" ELSE sync_state[s]]
      /\ UNCHANGED <<workVars, logVars, saveVars, sync_offset, writing, file_sending, pings, linkVars>>
  BY DEF RInv, Shape, MasterShape, ClearNilSlave
<1>1. \A s \in Slaves : /\ sync_state'[s] \in SyncStates
                        /\ sync_state'[s] # sync_state[s] =>
                             sync_state[s] = "NULL" /\ sync_state'[s] = "absent"
  BY <1>0 DEF SyncStates
<1>2. sync_state' \in [Slaves -> SyncStates]
  BY <1>0, <1>1
<1>3. Grows
  BY <1>0, SameHistoryGrows DEF RInv, logVars, workVars
<1>4. LinkShape'
  BY <1>0 DEF RInv, Shape, LinkShape, linkVars, connVars
<1>5. Shape'
  BY <1>0, <1>2, <1>4, SlavesStill DEF RInv, Shape, MasterShape, logVars, workVars, saveVars
<1>6. Executed'
  BY <1>0 DEF RInv, Executed, logVars, workVars
<1>7. Saving'
  BY <1>0, <1>1 DEF RInv, Saving, saveVars, logVars, workVars
<1>8. ASSUME NEW s \in Slaves PROVE Local(s)'
  <2>0. /\ ends'[s] = ends[s] /\ request'[s] = request[s] /\ stream'[s] = stream[s]
        /\ sync_offset'[s] = sync_offset[s] /\ file_sending'[s] = file_sending[s]
        /\ history' = history /\ store' = store
    BY <1>0 DEF linkVars, connVars, logVars, workVars
  <2>1. Shape /\ SameSlave(s) /\ Ends(s) /\ Asked(s) /\ Reads(s) /\ Writes(s) /\ Logged(s) /\ Stored(s)
    BY SlavesStill DEF RInv, Local
  <2>2. Logged(s)' /\ Stored(s)'
    BY <1>3, <2>1, SlaveFrame
  <2>3. Ends(s)' /\ Asked(s)'
    BY <1>1, <2>0, <2>1 DEF Ends, Asked, SameSlave
  <2>4. Reads(s)'
    BY <2>0, <2>1 DEF Reads, SameSlave
  <2>5. Writes(s)'
    BY <1>1, <2>0, <2>1 DEF Writes, Open, SameSlave
  <2> QED BY <2>2, <2>3, <2>4, <2>5 DEF Local
<1> QED BY <1>5, <1>6, <1>7, <1>8 DEF RInv

\* What fits a connection still does when the log and the store have grown.
LEMMA FitGrows ==
  ASSUME NEW s \in Slaves, RInv, Grows
  PROVE  Fit(s, ends[s], sync_state[s], sync_offset[s], stream[s], file_sending[s], history', store')
<1>1. \A d, n : Covers(d, n, history, store) => Covers(d, n, history', store')
  BY CoversGrows DEF Grows
<1>2. stream[s] \in Seq(Message) /\ Len(wal[s]) \in Nat /\ cached_offset[s] \in Nat
  BY DEF RInv, Shape, LinkShape, SlaveShape
<1>3. Incoming(state[s], stream[s], Len(wal[s]), cached_offset[s], history', store')
  BY <1>2, IncomingGrows DEF Grows, RInv, Local, Reads
<1>4. Open(ends[s], sync_state[s], sync_offset[s], stream[s], file_sending[s],
           state[s], Len(wal[s]), cached_offset[s], history', store')
  BY <1>1 DEF RInv, Local, Writes, Open
<1> QED BY <1>3, <1>4 DEF Fit

LEMMA SilentFacts ==
  /\ Silent \in [Slaves -> Seq(Message)]
  /\ \A s \in Slaves : Shape => Written(s, Silent[s]) = stream[s]
<1>1. Silent \in [Slaves -> Seq(Message)] /\ \A s \in Slaves : Silent[s] = <<>>
  BY DEF Silent
<1>2. ASSUME NEW s \in Slaves, Shape PROVE stream[s] \o <<>> = stream[s]
  <2>1. stream[s] \in Seq(Message)
    BY <1>2 DEF Shape, LinkShape
  <2> QED BY <2>1, ConcatEmptySeq
<1> QED BY <1>1, <1>2 DEF Written

\* What a log keeps begins inside it.
LEMMA RetainFacts ==
  ASSUME NEW start \in Nat, NEW end \in Nat, NEW size \in Nat, start <= end
  PROVE  Retain(start, end, size) \in 0..end
BY DEF Retain

\* A command that was executed, or a ping, is logged and sent.
LEMMA AppendAndSyncStep ==
  ASSUME RInv, NEW c \in Commands, c \in Elements(store) \cup {PING}, AppendAndSync(c),
         UNCHANGED <<store, posting, saveVars>>, UNCHANGED slaveVars,
         queue' \in Seq(Commands), Elements(queue') \subseteq Elements(queue)
  PROVE  RInv'
<1> DEFINE S == Lagging(sync_state, sync_offset, log_start')
<1>0. /\ history' = Append(history, c) /\ log_start' = Retain(log_start, Len(history'), WalSize)
      /\ Sync(S, sync_state, sync_offset, writing, Silent, history', log_start')
      /\ file_sending' = file_sending /\ request' = request
  BY DEF AppendAndSync
<1>1. /\ history \in Seq(Commands) /\ history' \in Seq(Commands) /\ Len(history') = Len(history) + 1
      /\ Prefix(history, history') /\ Elements(history') = Elements(history) \cup {c}
  BY <1>0, AppendFacts DEF RInv, Shape, MasterShape
<1>2. Grows
  BY <1>1 DEF Grows
<1>3. log_start' \in 0..Len(history')
  <2>1. /\ WalSize \in Nat /\ log_start \in Nat /\ Len(history') \in Nat
        /\ log_start <= Len(history')
    BY <1>1, MasterAssumption DEF RInv, Shape, MasterShape
  <2> QED BY <1>0, <2>1, RetainFacts
<1>4. /\ sync_state' \in [Slaves -> SyncStates]
      /\ writing' \in [Slaves -> {"off", "once", "on"}]
      /\ ends' \in [Slaves -> SUBSET {"master", "slave"}]
      /\ sync_offset' = [s \in Slaves |-> sync_offset'[s]]
      /\ stream' = [s \in Slaves |-> stream'[s]]
  <2>1. /\ LinkShape /\ sync_state \in [Slaves -> SyncStates]
        /\ writing \in [Slaves -> {"off", "once", "on"}]
    BY DEF RInv, Shape, MasterShape
  <2> QED BY <1>0, <1>1, <2>1, SyncShape
<1>5. ASSUME NEW s \in Slaves
      PROVE  /\ stream'[s] \in Seq(Message) /\ sync_offset'[s] \in Nat /\ Local(s)'
             /\ sync_state'[s] \in {sync_state[s], "NULL"}
  <2>1. /\ Shape /\ SameSlave(s) /\ Ends(s) /\ Asked(s) /\ Logged(s) /\ Stored(s)
    BY SlavesStill DEF RInv, Local
  <2>2. /\ sync_offset \in [Slaves -> Nat] /\ sync_offset[s] <= Len(history')
        /\ request'[s] = request[s] /\ request[s] \in Seq(Request)
        /\ file_sending'[s] = file_sending[s]
    BY <1>0, <1>1, <2>1 DEF Shape, MasterShape, LinkShape, Ends
  <2>3. Left(s, sync_state, sync_offset, Silent, ends[s], sync_state[s], sync_offset[s], stream[s])
    BY <2>1, SilentFacts DEF Left
  <2>4. Fit(s, ends[s], sync_state[s], sync_offset[s], stream[s], file_sending'[s], history', store')
    BY <1>2, <2>2, FitGrows
  <2>5. /\ s \in S => sync_state[s] = "SYNCED"
        /\ "master" \notin ends[s] => sync_state[s] \in {"absent", "NULL"} /\ request[s] = <<>>
        /\ state[s] = "INVALID" <=> "slave" \notin ends[s]
        /\ "slave" \notin ends[s] => stream[s] = <<>>
        /\ sync_state[s] = "SYNCING_SNAPSHOT" => file_sending'[s] # None
    BY <2>1, <2>2 DEF Lagging, Ends
  <2>6. stream'[s] \in Seq(Message) /\ sync_offset'[s] \in Nat /\ Local(s)'
    BY <1>0, <1>1, <1>2, <2>1, <2>2, <2>3, <2>4, <2>5, SilentFacts, SyncLocal
  <2>7. sync_state'[s] \in {sync_state[s], "NULL"}
    BY <1>0 DEF Sync
  <2> QED BY <2>6, <2>7
<1>6. Shape'
  <2>1. sync_offset' \in [Slaves -> Nat]
    BY <1>4, <1>5
  <2>2. stream' \in [Slaves -> Seq(Message)]
    BY <1>4, <1>5
  <2>3. LinkShape'
    BY <1>0, <1>4, <2>2 DEF RInv, Shape, LinkShape
  <2> QED BY <1>0, <1>1, <1>3, <1>4, <2>1, <2>3, SlavesStill
        DEF RInv, Shape, MasterShape, saveVars
<1>7. Executed'
  BY <1>1 DEF RInv, Executed
<1>8. Saving'
  <2>1. \A d, n : Covers(d, n, history, store) => Covers(d, n, history', store')
    BY <1>2, CoversGrows DEF Grows
  <2> QED BY <1>5, <2>1 DEF RInv, Saving, saveVars
<1> QED BY <1>5, <1>6, <1>7, <1>8 DEF RInv

LEMMA WriteWALCallbackStep ==
  ASSUME RInv, WriteWALCallback, UNCHANGED slaveVars
  PROVE  RInv'
<1>1. queue \in Seq(Commands) /\ queue # <<>> /\ queue' = Tail(queue)
  BY DEF WriteWALCallback, RInv, Shape, MasterShape
<1>2. /\ Tail(queue) \in Seq(Commands) /\ Len(Tail(queue)) = Len(queue) - 1 /\ Len(queue) \in Nat \ {0}
      /\ \A i \in 1..Len(queue) - 1 : Tail(queue)[i] = queue[i + 1]
      /\ queue[1] \in Commands /\ Head(queue) = queue[1]
  BY <1>1, TailIsSeq
<1>3. Elements(queue') \subseteq Elements(queue)
  <2>1. SUFFICES ASSUME NEW i \in 1..Len(queue) - 1 PROVE queue[i + 1] \in Elements(queue)
    BY <1>1, <1>2 DEF Elements
  <2>2. i + 1 \in DOMAIN queue
    BY <1>1, <1>2
  <2> QED BY <2>2 DEF Elements
<1>4. Head(queue) \in Elements(store) \cup {PING}
  <2>1. 1 \in DOMAIN queue
    BY <1>1, <1>2
  <2> QED BY <1>2, <2>1 DEF RInv, Executed, Elements
<1> QED BY <1>1, <1>2, <1>3, <1>4, AppendAndSyncStep DEF WriteWALCallback

LEMMA OnHeartbeatStep ==
  ASSUME RInv, OnHeartbeat, UNCHANGED slaveVars
  PROVE  RInv'
<1>1. PING \in Commands
  BY MasterAssumption DEF Commands, PING
<1>2. queue' = queue /\ queue \in Seq(Commands) /\ UNCHANGED <<store, posting, saveVars>>
  BY DEF OnHeartbeat, workVars, RInv, Shape, MasterShape
<1> QED BY <1>1, <1>2, AppendAndSyncStep DEF OnHeartbeat

\* The connection of a slave after a handler of the master.
LEMMA LinkStep ==
  ASSUME NEW s, s \in Slaves, RInv, SameSlave(s), Grows, Ends(s)', Asked(s)',
         Fit(s, ends'[s], sync_state'[s], sync_offset'[s], stream'[s], file_sending'[s],
             history', store')
  PROVE  Local(s)'
<1>1. Logged(s)' /\ Stored(s)'
  BY SlaveFrame DEF RInv, Local
<1>2. Reads(s)' /\ Writes(s)'
  BY DEF Fit, Reads, Writes, SameSlave
<1> QED BY <1>1, <1>2 DEF Local

\* A connection whose master end is closed, or already was.
LEMMA ClosedLink ==
  ASSUME NEW s, s \in Slaves, RInv, SameSlave(s), Grows, Ends(s),
         "master" \notin ends'[s], "slave" \in ends'[s] <=> "slave" \in ends[s],
         request'[s] = <<>>, sync_state'[s] \in {"absent", "NULL"},
         sync_offset'[s] <= Len(history'),
         "slave" \notin ends[s] => stream'[s] = <<>>,
         Incoming(state[s], stream'[s], Len(wal[s]), cached_offset[s], history', store')
  PROVE  Local(s)'
<1>1. Ends(s)'
  BY DEF Ends, SameSlave
<1>2. Asked(s)'
  BY DEF Asked
<1>3. Fit(s, ends'[s], sync_state'[s], sync_offset'[s], stream'[s], file_sending'[s],
          history', store')
  BY DEF Fit, Open
<1> QED BY <1>1, <1>2, <1>3, LinkStep

\* The stream of a connection the master closes, as the slave will read it.
LEMMA EndedStream ==
  ASSUME NEW s, s \in Slaves, RInv, "master" \in ends[s]
  PROVE  /\ Written(s, <<EOF>>) \in Seq(Message)
         /\ "slave" \notin ends[s] => Written(s, <<EOF>>) = <<>>
         /\ Incoming(state[s], Written(s, <<EOF>>), Len(wal[s]), cached_offset[s], history, store)
<1>1. /\ stream[s] \in Seq(Message) /\ ends[s] \in SUBSET {"master", "slave"}
      /\ Len(wal[s]) \in Nat /\ cached_offset[s] \in Nat /\ state[s] \in SlaveStates
      /\ history \in Seq(Commands)
  BY DEF RInv, Shape, LinkShape, SlaveShape, MasterShape
<1>2. Ends(s) /\ Reads(s) /\ Writes(s)
  BY DEF RInv, Local
<1>3. CASE "slave" \notin ends[s]
  BY <1>1, <1>2, <1>3 DEF Ends, Written, Reads
<1>4. CASE "slave" \in ends[s]
  <2>1. ends[s] = {"master", "slave"}
    BY <1>1, <1>4
  <2>2. \A i \in 1..Len(stream[s]) : stream[s][i] # EOF
    BY <1>2, <2>1 DEF Writes, Open
  <2>3. SubSeq(stream[s], 1, Len(stream[s])) = stream[s] /\ Len(stream[s]) \in 0..Len(stream[s])
    BY <1>1, SubSeqFull
  <2>4. /\ stream[s] \o <<EOF>> \in Seq(Message)
        /\ Incoming(state[s], stream[s] \o <<EOF>>, Len(wal[s]), cached_offset[s], history, store)
    BY <1>1, <1>2, <2>2, <2>3, IncomingCut DEF Reads
  <2> QED BY <1>4, <2>4 DEF Written
<1> QED BY <1>3, <1>4

\* SaveFailed closes the slaves that wait, and no others.
LEMMA SaveFailedStep ==
  ASSUME RInv, SaveFailed, UNCHANGED slaveVars
  PROVE  RInv'
<1>0. /\ snapshot_saving' = -1 /\ backup' = None
      /\ sync_state' = [s \in Slaves |-> IF s \in Waiting THEN "NULL" ELSE sync_state[s]]
      /\ MasterEndCloses(Waiting)
      /\ UNCHANGED <<workVars, logVars, sync_offset, writing, file_sending>>
  BY DEF SaveFailed
<1>1. Grows
  BY <1>0, SameHistoryGrows DEF RInv, logVars, workVars
<1>2. \A s \in Slaves : s \in Waiting <=> sync_state[s] = "WAITING_SNAPSHOT"
  BY DEF Waiting
<1>3. ASSUME NEW s \in Slaves
      PROVE  /\ Local(s)' /\ stream'[s] \in Seq(Message) /\ ends'[s] \in SUBSET {"master", "slave"}
             /\ request'[s] \in Seq(Request) /\ sync_state'[s] \in SyncStates
             /\ sync_state'[s] # "WAITING_SNAPSHOT"
  <2>0. /\ ends'[s] = IF s \in Waiting THEN ends[s] \ {"master"} ELSE ends[s]
        /\ request'[s] = IF s \in Waiting THEN <<>> ELSE request[s]
        /\ stream'[s] = IF s \in Waiting THEN Written(s, <<EOF>>) ELSE stream[s]
        /\ sync_state'[s] = IF s \in Waiting THEN "NULL" ELSE sync_state[s]
        /\ sync_offset'[s] = sync_offset[s] /\ file_sending'[s] = file_sending[s]
        /\ history' = history /\ store' = store
    BY <1>0 DEF MasterEndCloses, logVars, workVars
  <2>1. Shape /\ SameSlave(s) /\ Ends(s) /\ Local(s)
    BY SlavesStill DEF RInv, Local
  <2>2. /\ stream[s] \in Seq(Message) /\ ends[s] \in SUBSET {"master", "slave"}
        /\ request[s] \in Seq(Request) /\ sync_state[s] \in SyncStates
    BY <2>1 DEF Shape, LinkShape, MasterShape
  <2>3. CASE s \in Waiting
    <3>1. "master" \in ends[s] /\ sync_offset[s] <= Len(history)
      BY <1>2, <2>1, <2>3 DEF Ends
    <3>2. /\ Written(s, <<EOF>>) \in Seq(Message)
          /\ "slave" \notin ends[s] => Written(s, <<EOF>>) = <<>>
          /\ Incoming(state[s], Written(s, <<EOF>>), Len(wal[s]), cached_offset[s], history, store)
      BY <3>1, EndedStream
    <3>3. Local(s)'
      BY <1>1, <2>0, <2>1, <2>3, <3>1, <3>2, ClosedLink
    <3> QED BY <2>0, <2>2, <2>3, <3>2, <3>3 DEF SyncStates
  <2>4. CASE s \notin Waiting
    <3>1. SameLink(s)
      BY <2>0, <2>4 DEF SameLink
    <3>2. Local(s)'
      BY <1>1, <2>1, <3>1, LinkFrame
    <3> QED BY <1>2, <2>0, <2>2, <2>4, <3>2
  <2> QED BY <2>3, <2>4
<1>4. LinkShape'
  BY <1>0, <1>3 DEF LinkShape, MasterEndCloses
<1>5. Shape'
  <2>1. sync_state' \in [Slaves -> SyncStates]
    BY <1>0, <1>3
  <2> QED BY <1>0, <1>4, <2>1, SlavesStill DEF RInv, Shape, MasterShape, logVars, workVars
<1>6. Executed'
  BY <1>0 DEF RInv, Executed, logVars, workVars
<1>7. Saving'
  BY <1>0, <1>3 DEF Saving
<1> QED BY <1>3, <1>5, <1>6, <1>7 DEF RInv

\* Forget changes the connection of s alone, and leaves it closed.
LEMMA ForgetStep ==
  ASSUME RInv, NEW s \in Slaves, Forget(s), UNCHANGED slaveVars,
         "master" \notin ends'[s], "slave" \in ends'[s] <=> "slave" \in ends[s],
         request'[s] = <<>>, stream'[s] \in Seq(Message),
         "slave" \notin ends[s] => stream'[s] = <<>>,
         Incoming(state[s], stream'[s], Len(wal[s]), cached_offset[s], history, store),
         LinkShape',
         \A t \in Slaves \ {s} : ends'[t] = ends[t] /\ request'[t] = request[t]
                                  /\ stream'[t] = stream[t]
  PROVE  RInv'
<1>0. /\ sync_state' = [sync_state EXCEPT ![s] = IF @ = "absent" THEN @ ELSE "NULL"]
      /\ writing' = [writing EXCEPT ![s] = "off"]
      /\ file_sending' = [file_sending EXCEPT ![s] = None]
      /\ UNCHANGED <<workVars, logVars, saveVars, sync_offset, pings>>
      /\ sync_state \in [Slaves -> SyncStates]
  BY DEF Forget, RInv, Shape, MasterShape
<1>1. Grows
  BY <1>0, SameHistoryGrows DEF RInv, logVars, workVars
<1>2. sync_state'[s] \in {"absent", "NULL"} /\ sync_state' \in [Slaves -> SyncStates]
      /\ \A t \in Slaves \ {s} : sync_state'[t] = sync_state[t]
  BY <1>0 DEF SyncStates
<1>3. Shape'
  BY <1>0, <1>2, SlavesStill DEF RInv, Shape, MasterShape, logVars, workVars, saveVars
<1>4. Executed'
  BY <1>0 DEF RInv, Executed, logVars, workVars
<1>5. Saving'
  BY <1>0, <1>2 DEF RInv, Saving, logVars, workVars, saveVars
<1>6. Local(s)'
  <2>1. SameSlave(s) /\ Ends(s) /\ history' = history /\ store' = store
        /\ sync_offset'[s] = sync_offset[s] /\ sync_offset[s] <= Len(history)
    BY <1>0, SlavesStill DEF RInv, Local, Ends, logVars, workVars
  <2> QED BY <1>1, <1>2, <2>1, ClosedLink
<1>7. ASSUME NEW t \in Slaves \ {s} PROVE Local(t)'
  <2>1. SameLink(t) /\ SameSlave(t) /\ Shape /\ Local(t)
    BY <1>0, <1>2, SlavesStill DEF RInv, SameLink, Shape, MasterShape
  <2> QED BY <1>1, <2>1, LinkFrame
<1> QED BY <1>3, <1>4, <1>5, <1>6, <1>7 DEF RInv

LEMMA ChannelClosedStep ==
  ASSUME RInv, NEW s \in Slaves, ChannelClosed(s), UNCHANGED slaveVars
  PROVE  RInv'
<1>1. /\ ends[s] = {"master"} /\ request[s] = <<>> /\ ends' = [ends EXCEPT ![s] = {}]
      /\ Forget(s) /\ request' = request /\ stream' = stream
      /\ LinkShape /\ Ends(s) /\ Reads(s)
  BY DEF ChannelClosed, RInv, Shape, Local
<1>2. LinkShape'
  BY <1>1 DEF LinkShape
<1>3. /\ "master" \notin ends'[s] /\ "slave" \notin ends'[s] /\ "slave" \notin ends[s]
      /\ stream'[s] = <<>> /\ stream'[s] \in Seq(Message) /\ request'[s] = <<>>
      /\ \A t \in Slaves \ {s} : ends'[t] = ends[t] /\ request'[t] = request[t]
                                  /\ stream'[t] = stream[t]
  BY <1>1 DEF LinkShape, Ends
<1>4. Incoming(state[s], stream'[s], Len(wal[s]), cached_offset[s], history, store)
  BY <1>1 DEF Reads
<1> QED BY <1>1, <1>2, <1>3, <1>4, ForgetStep

LEMMA ConnectionBreaksStep ==
  ASSUME RInv, NEW s \in Slaves, ConnectionBreaks(s), UNCHANGED slaveVars
  PROVE  RInv'
<1>1. /\ ends[s] = {"master", "slave"} /\ ends' = [ends EXCEPT ![s] = {"slave"}]
      /\ request' = [request EXCEPT ![s] = <<>>] /\ Forget(s)
      /\ Shape /\ LinkShape /\ Reads(s) /\ Writes(s)
  BY DEF ConnectionBreaks, Break, RInv, Shape, Local
<1>2. PICK k \in 0..Len(stream[s]) : stream' = [stream EXCEPT ![s] = SubSeq(@, 1, k) \o <<EOF>>]
  BY DEF ConnectionBreaks, Break
<1>3. \A i \in 1..Len(stream[s]) : stream[s][i] # EOF
  BY <1>1 DEF Writes, Open
<1>4. /\ stream[s] \in Seq(Message) /\ Len(wal[s]) \in Nat /\ cached_offset[s] \in Nat
      /\ state[s] \in SlaveStates /\ history \in Seq(Commands)
  BY <1>1 DEF Shape, LinkShape, SlaveShape, MasterShape
<1>5. /\ SubSeq(stream[s], 1, k) \o <<EOF>> \in Seq(Message)
      /\ Incoming(state[s], SubSeq(stream[s], 1, k) \o <<EOF>>, Len(wal[s]), cached_offset[s],
                  history, store)
  BY <1>1, <1>3, <1>4, IncomingCut DEF Reads
<1>6. /\ stream'[s] = SubSeq(stream[s], 1, k) \o <<EOF>>
      /\ "master" \notin ends'[s] /\ "slave" \in ends'[s] /\ "slave" \in ends[s]
      /\ request'[s] = <<>>
      /\ \A t \in Slaves \ {s} : ends'[t] = ends[t] /\ request'[t] = request[t]
                                  /\ stream'[t] = stream[t]
  BY <1>1, <1>2 DEF LinkShape
<1>7. LinkShape'
  BY <1>1, <1>2, <1>5 DEF LinkShape
<1> QED BY <1>1, <1>5, <1>6, <1>7, ForgetStep

LEMMA MasterRestartStep ==
  ASSUME RInv, MasterRestart, UNCHANGED slaveVars
  PROVE  RInv'
<1> DEFINE S == {s \in Slaves : "master" \in ends[s]}
<1>0. /\ posting' = [w \in Workers |-> PING] /\ queue' = <<>>
      /\ snapshot_saving' = -1 /\ backup' = None
      /\ sync_state' = [s \in Slaves |-> "absent"] /\ sync_offset' = [s \in Slaves |-> 0]
      /\ writing' = [s \in Slaves |-> "off"] /\ file_sending' = [s \in Slaves |-> None]
      /\ MasterEndCloses(S) /\ store' = store /\ UNCHANGED <<history, log_start>>
  BY DEF MasterRestart
<1>1. Grows
  BY <1>0, SameHistoryGrows DEF RInv, logVars
<1>3. ASSUME NEW s \in Slaves
      PROVE  /\ Local(s)' /\ stream'[s] \in Seq(Message) /\ ends'[s] \in SUBSET {"master", "slave"}
             /\ request'[s] \in Seq(Request)
  <2>0. /\ ends'[s] = IF s \in S THEN ends[s] \ {"master"} ELSE ends[s]
        /\ request'[s] = IF s \in S THEN <<>> ELSE request[s]
        /\ stream'[s] = IF s \in S THEN Written(s, <<EOF>>) ELSE stream[s]
        /\ history' = history /\ store' = store
    BY <1>0 DEF MasterEndCloses, logVars
  <2>1. Shape /\ SameSlave(s) /\ Ends(s) /\ Reads(s)
    BY SlavesStill DEF RInv, Local
  <2>2. /\ stream[s] \in Seq(Message) /\ ends[s] \in SUBSET {"master", "slave"}
        /\ request[s] \in Seq(Request) /\ Len(history) \in Nat
    BY <2>1 DEF Shape, LinkShape, MasterShape
  <2>3. /\ sync_state'[s] \in {"absent", "NULL"} /\ sync_offset'[s] <= Len(history')
    BY <1>0, <2>0, <2>2
  <2>4. CASE s \in S
    <3>2. /\ Written(s, <<EOF>>) \in Seq(Message)
          /\ "slave" \notin ends[s] => Written(s, <<EOF>>) = <<>>
          /\ Incoming(state[s], Written(s, <<EOF>>), Len(wal[s]), cached_offset[s], history, store)
      BY <2>4, EndedStream
    <3>3. Local(s)'
      BY <1>1, <2>0, <2>1, <2>3, <2>4, <3>2, ClosedLink
    <3> QED BY <2>0, <2>2, <2>4, <3>2, <3>3
  <2>5. CASE s \notin S
    <3>1. "master" \notin ends[s] /\ request[s] = <<>> /\ ("slave" \notin ends[s] => stream[s] = <<>>)
      BY <2>1, <2>5 DEF Ends
    <3>2. Local(s)'
      BY <1>1, <2>0, <2>1, <2>3, <2>5, <3>1, ClosedLink DEF Reads
    <3> QED BY <2>0, <2>2, <2>5, <3>2
  <2> QED BY <2>4, <2>5
<1>4. LinkShape'
  BY <1>0, <1>3 DEF LinkShape, MasterEndCloses
<1>5. Shape'
  <2>1. /\ PING \in Commands
    BY MasterAssumption DEF Commands, PING
  <2>2. posting' \in [Workers -> Commands]
    BY <1>0, <2>1
  <2>3. sync_state' \in [Slaves -> SyncStates]
    BY <1>0 DEF SyncStates
  <2> QED BY <1>0, <1>4, <2>2, <2>3, SlavesStill DEF RInv, Shape, MasterShape, logVars
<1>6. Executed'
  BY <1>0 DEF RInv, Executed, logVars, Elements
<1>7. Saving'
  BY <1>0 DEF Saving
<1> QED BY <1>3, <1>5, <1>6, <1>7 DEF RInv

\* A handler leaves the connections of other slaves alone and that of slave s
\* fit, before it calls Sync.
Prepares(s, S, st, so, out) ==
  /\ \A t \in S : st[t] = "SYNCED"
  /\ \A t \in Slaves \ {s} :
       /\ st[t] = sync_state[t] /\ so[t] = sync_offset[t] /\ out[t] = <<>>
       /\ request'[t] = request[t] /\ file_sending'[t] = file_sending[t]
  /\ st[s] # "WAITING_SNAPSHOT" /\ "master" \in ends[s] /\ request'[s] = <<>>
  /\ so[s] <= Len(history) /\ st[s] # "SYNCING_SNAPSHOT"
  /\ Fit(s, ends[s], st[s], so[s], Written(s, out[s]), file_sending'[s], history, store)

LEMMA SyncHandler ==
  ASSUME RInv, UNCHANGED slaveVars, UNCHANGED <<workVars, logVars, saveVars>>,
         NEW s, NEW S, NEW st, NEW so, NEW wr, NEW out,
         Sync(S, st, so, wr, out, history, log_start), s \in Slaves,
         st \in [Slaves -> SyncStates], so \in [Slaves -> Nat],
         wr \in [Slaves -> {"off", "once", "on"}], out \in [Slaves -> Seq(Message)],
         request' \in [Slaves -> Seq(Request)],
         file_sending' \in [Slaves -> Seq(Commands) \cup {None}],
         Prepares(s, S, st, so, out)
  PROVE  RInv'
<1>0. /\ \A t \in S : st[t] = "SYNCED"
      /\ \A t \in Slaves \ {s} :
           /\ st[t] = sync_state[t] /\ so[t] = sync_offset[t] /\ out[t] = <<>>
           /\ request'[t] = request[t] /\ file_sending'[t] = file_sending[t]
      /\ st[s] # "WAITING_SNAPSHOT" /\ "master" \in ends[s] /\ request'[s] = <<>>
      /\ so[s] <= Len(history) /\ st[s] # "SYNCING_SNAPSHOT"
      /\ Fit(s, ends[s], st[s], so[s], Written(s, out[s]), file_sending'[s], history, store)
  BY DEF Prepares
<1>1. Grows /\ history' = history /\ store' = store
  BY SameHistoryGrows DEF RInv, logVars, workVars
<1>2. Shape /\ LinkShape /\ history \in Seq(Commands)
  BY DEF RInv, Shape, MasterShape
<1>3. /\ sync_state' \in [Slaves -> SyncStates]
      /\ writing' \in [Slaves -> {"off", "once", "on"}]
      /\ ends' \in [Slaves -> SUBSET {"master", "slave"}]
      /\ sync_offset' = [t \in Slaves |-> sync_offset'[t]]
      /\ stream' = [t \in Slaves |-> stream'[t]]
  BY <1>2, SyncShape
<1>4. ASSUME NEW t \in Slaves
      PROVE  /\ stream'[t] \in Seq(Message) /\ sync_offset'[t] \in Nat /\ Local(t)'
             /\ sync_state'[t] = "WAITING_SNAPSHOT" => sync_state[t] = "WAITING_SNAPSHOT"
  <2>1. SameSlave(t) /\ Ends(t) /\ Asked(t) /\ Logged(t) /\ Stored(t)
    BY <1>2, SlavesStill DEF RInv, Local
  <2>2. /\ state[t] = "INVALID" <=> "slave" \notin ends[t]
        /\ "slave" \notin ends[t] => stream[t] = <<>>
        /\ sync_offset[t] <= Len(history) /\ request'[t] \in Seq(Request)
        /\ t \in S => st[t] = "SYNCED"
    BY <1>0, <2>1 DEF Ends
  <2>3. Left(t, st, so, out, ends[t], st[t], so[t], Written(t, out[t]))
    BY DEF Left
  <2>4. CASE t = s
    <3>1. stream'[t] \in Seq(Message) /\ sync_offset'[t] \in Nat /\ Local(t)'
      BY <1>0, <1>1, <1>2, <2>1, <2>2, <2>3, <2>4, SyncLocal, ZenonT(40)
    <3>2. sync_state'[t] \in {st[t], "NULL"}
      BY DEF Sync
    <3> QED BY <1>0, <2>4, <3>1, <3>2
  <2>5. CASE t # s
    <3>1. /\ st[t] = sync_state[t] /\ so[t] = sync_offset[t] /\ out[t] = Silent[t]
          /\ request'[t] = request[t] /\ file_sending'[t] = file_sending[t]
      BY <1>0, <2>5 DEF Silent
    <3>2. Written(t, out[t]) = stream[t]
      BY <1>2, <3>1, SilentFacts
    <3>3. Fit(t, ends[t], st[t], so[t], Written(t, out[t]), file_sending'[t], history, store)
      <4>1. Fit(t, ends[t], sync_state[t], sync_offset[t], stream[t], file_sending[t],
                history', store')
        BY <1>1, FitGrows
      <4> QED BY <1>1, <3>1, <3>2, <4>1
    <3>4. /\ "master" \notin ends[t] => st[t] \in {"absent", "NULL"} /\ request[t] = <<>>
          /\ so[t] <= Len(history)
          /\ st[t] = "SYNCING_SNAPSHOT" => file_sending'[t] # None
      BY <2>1, <3>1 DEF Ends
    <3>5. stream'[t] \in Seq(Message) /\ sync_offset'[t] \in Nat /\ Local(t)'
      BY <1>1, <1>2, <2>1, <2>2, <2>3, <3>1, <3>3, <3>4, SyncLocal
    <3>6. sync_state'[t] \in {st[t], "NULL"}
      BY DEF Sync
    <3> QED BY <3>1, <3>5, <3>6
  <2> QED BY <2>4, <2>5
<1>5. Shape'
  <2>1. sync_offset' \in [Slaves -> Nat]
    BY <1>3, <1>4
  <2>2. stream' \in [Slaves -> Seq(Message)]
    BY <1>3, <1>4
  <2>3. LinkShape'
    BY <1>3, <2>2 DEF LinkShape
  <2> QED BY <1>2, <1>3, <2>1, <2>3, SlavesStill DEF Shape, MasterShape, saveVars, logVars, workVars
<1>6. Executed'
  BY DEF RInv, Executed, logVars, workVars
<1>7. Saving'
  BY <1>4 DEF RInv, Saving, logVars, workVars, saveVars
<1> QED BY <1>4, <1>5, <1>6, <1>7 DEF RInv

\* ChannelWritable continues where the connection is, or stops writing.
LEMMA ChannelWritableStep ==
  ASSUME RInv, NEW s \in Slaves, ChannelWritable(s), UNCHANGED slaveVars
  PROVE  RInv'
<1>1. /\ sync_state[s] = "SYNCED" /\ UNCHANGED <<workVars, logVars, saveVars, file_sending, request>>
      /\ \/ writing' = [writing EXCEPT ![s] = "off"] /\ UNCHANGED <<sync_state, sync_offset, stream, ends>>
         \/ Sync({s}, sync_state, sync_offset, writing, Silent, history, log_start)
  BY DEF ChannelWritable
<1>2. Grows /\ Shape /\ history' = history /\ store' = store
  BY <1>1, SameHistoryGrows DEF RInv, logVars, workVars
<1>3. CASE writing' = [writing EXCEPT ![s] = "off"] /\ UNCHANGED <<sync_state, sync_offset, stream, ends>>
  <2>1. \A t \in Slaves : SameLink(t) /\ SameSlave(t)
    BY <1>1, <1>2, <1>3, SlavesStill DEF SameLink
  <2>2. \A t \in Slaves : Local(t)'
    BY <1>2, <2>1, LinkFrame DEF RInv
  <2>3. LinkShape'
    BY <1>1, <1>2, <1>3 DEF Shape, LinkShape
  <2>4. Shape'
    BY <1>1, <1>2, <1>3, <2>3, SlavesStill DEF Shape, MasterShape, saveVars, logVars, workVars
  <2>5. Executed' /\ Saving'
    BY <1>1, <1>3 DEF RInv, Executed, Saving, logVars, workVars, saveVars
  <2> QED BY <2>2, <2>4, <2>5 DEF RInv
<1>4. CASE Sync({s}, sync_state, sync_offset, writing, Silent, history, log_start)
  <2>1. Ends(s) /\ Asked(s)
    BY DEF RInv, Local
  <2>2. "master" \in ends[s] /\ request[s] = <<>> /\ sync_offset[s] <= Len(history)
    BY <1>1, <2>1 DEF Ends, Asked
  <2>3. Fit(s, ends[s], sync_state[s], sync_offset[s], Written(s, Silent[s]), file_sending'[s],
            history, store)
    <3>1. Fit(s, ends[s], sync_state[s], sync_offset[s], stream[s], file_sending[s],
              history', store')
      BY <1>2, FitGrows
    <3> QED BY <1>1, <1>2, <3>1, SilentFacts
  <2>4. /\ sync_state \in [Slaves -> SyncStates] /\ sync_offset \in [Slaves -> Nat]
        /\ writing \in [Slaves -> {"off", "once", "on"}] /\ request' \in [Slaves -> Seq(Request)]
        /\ file_sending' \in [Slaves -> Seq(Commands) \cup {None}]
    BY <1>1, <1>2 DEF Shape, MasterShape, LinkShape
  <2>5. \A t \in Slaves \ {s} : /\ Silent[t] = <<>> /\ request'[t] = request[t]
                                /\ file_sending'[t] = file_sending[t]
    BY <1>1 DEF Silent
  <2>6. request'[s] = <<>>
    BY <1>1, <2>2
  <2>7. Prepares(s, {s}, sync_state, sync_offset, Silent)
    BY <1>1, <2>2, <2>3, <2>5, <2>6 DEF Prepares
  <2> QED BY <1>1, <1>4, <2>4, <2>7, SilentFacts, SyncHandler
<1> QED BY <1>1, <1>3, <1>4

\* A stream of one or two messages.
LEMMA OneMessage ==
  ASSUME NEW a \in Message
  PROVE  /\ <<a>> \in Seq(Message) /\ Len(<<a>>) = 1 /\ <<a>>[1] = a /\ <<a>> # <<>>
         /\ Tail(<<a>>) = <<>> /\ <<>> \o <<a>> = <<a>>
<1>1. <<a>> \in Seq(Message) /\ Len(<<a>>) = 1 /\ <<a>>[1] = a /\ <<a>> # <<>>
  OBVIOUS
<1>2. Tail(<<a>>) = <<>>
  BY <1>1, TailIsSeq
<1>3. <<>> \o <<a>> = <<a>>
  BY <1>1, ConcatEmptySeq
<1> QED BY <1>1, <1>2, <1>3

LEMMA TwoMessages ==
  ASSUME NEW a \in Message, NEW b \in Message, NEW m \in Seq(Message), Len(m) = 1, m[1] = a
  PROVE  /\ m \o <<b>> \in Seq(Message) /\ Len(m \o <<b>>) = 2 /\ (m \o <<b>>)[1] = a
         /\ (m \o <<b>>)[2] = b /\ m \o <<b>> # <<>> /\ Tail(m \o <<b>>) = <<b>>
<1>1. /\ m = <<a>> /\ <<b>> \in Seq(Message) /\ Len(<<b>>) = 1 /\ <<b>>[1] = b
      /\ m # <<>> /\ Len(m) + Len(<<b>>) = 2
  OBVIOUS
<1>2. /\ m \o <<b>> \in Seq(Message) /\ m \o <<b>> # <<>> /\ (m \o <<b>>)[1] = m[1]
      /\ Len(m \o <<b>>) = Len(m) + Len(<<b>>) /\ Tail(m \o <<b>>) = Tail(m) \o <<b>>
  BY <1>1, TailConcat
<1>3. Tail(m) = <<>>
  BY <1>1, OneMessage
<1>4. Tail(m \o <<b>>) = <<b>>
  BY <1>2, <1>3, OneMessage
<1>5. (m \o <<b>>)[2] = b
  <2>1. \A i \in Len(m) + 1..Len(m) + Len(<<b>>) : (m \o <<b>>)[i] = <<b>>[i - Len(m)]
    BY <1>1, ConcatProperties
  <2>2. 2 \in Len(m) + 1..Len(m) + Len(<<b>>) /\ 2 - Len(m) = 1
    BY <1>1
  <2> QED BY <1>1, <2>1, <2>2
<1> QED BY <1>1, <1>2, <1>4, <1>5

LEMMA NoFlow ==
  ASSUME NEW n, NEW h
  PROVE  Flow(<<>>, n, h) /\ Silence(<<>>)
  BY DEF Flow, Silence

\* A connection whose slave end is closed fits anything.
LEMMA NobodyReads ==
  ASSUME NEW s, NEW ss, NEW o, NEW m, NEW fs, NEW h, NEW x,
         s \in Slaves, "slave" \notin ends[s], Ends(s)
  PROVE  Fit(s, ends[s], ss, o, m, fs, h, x)
<1>1. state[s] = "INVALID" /\ ends[s] # {"master", "slave"}
  BY DEF Ends
<1> QED BY <1>1 DEF Fit, Open, Incoming, Handshake

\* After the whole file the connection is at the offset of the snapshot.
LEMMA SnapshotFits ==
  ASSUME RInv, NEW s \in Slaves, sync_state[s] = "SYNCING_SNAPSHOT", "slave" \in ends[s]
  PROVE  \A fs : Fit(s, ends[s], "SYNCED", sync_offset[s],
                     stream[s] \o <<Snapshot(file_sending[s])>>, fs, history, store)
<1> DEFINE f == file_sending[s]
           so == sync_offset[s]
           b == Snapshot(f)
           n == Len(wal[s])
           co == cached_offset[s]
           m == stream[s] \o <<b>>
<1>1. /\ ends[s] \in SUBSET {"master", "slave"} /\ stream[s] \in Seq(Message)
      /\ f \in Seq(Commands) \cup {None} /\ so \in Nat /\ n \in Nat /\ co \in Nat
      /\ Ends(s) /\ Writes(s) /\ history \in Seq(Commands)
  BY SMTT(30) DEF RInv, Shape, LinkShape, MasterShape, SlaveShape, Local
<1>2. ends[s] = {"master", "slave"}
  BY <1>1 DEF Ends
<1>3. /\ Covers(f, so, history, store) /\ f # None
      /\ \/ state[s] = "WAITING_PSYNC_REPLY" /\ Len(stream[s]) = 1 /\ stream[s][1] = FullResync(so)
         \/ state[s] = "WAITING_SNAPSHOT" /\ stream[s] = <<>> /\ co = so
  BY <1>1, <1>2 DEF Writes, Open
<1>4. f \in Seq(Commands) /\ b \in Message /\ b # EOF /\ so \in 0..Len(history)
  BY <1>1, <1>3, Messages, Kinds DEF Covers
<1>5. Dump(<<b>>, so, history, store)
  <2>1. <<b>> # <<>> /\ <<b>>[1] = Snapshot(f) /\ Tail(<<b>>) = <<>>
    BY <1>4, OneMessage
  <2> QED BY <1>3, <1>4, <2>1, NoFlow DEF Dump
<1>6. CASE state[s] = "WAITING_PSYNC_REPLY" /\ Len(stream[s]) = 1 /\ stream[s][1] = FullResync(so)
  <2>1. FullResync(so) \in Message /\ FullResync(so) # EOF /\ FullResync(so).off = so
    BY <1>1, Messages, Kinds
  <2>2. /\ m \in Seq(Message) /\ Len(m) = 2 /\ m[1] = FullResync(so) /\ m[2] = b /\ m # <<>>
        /\ Tail(m) = <<b>>
    BY <1>1, <1>4, <1>6, <2>1, TwoMessages
  <2>3. Answer(m, n, history, store)
    BY <1>4, <1>5, <2>2 DEF Answer
  <2>4. Incoming(state[s], m, n, co, history, store)
    BY <1>6, <2>3 DEF Incoming, Handshake
  <2>5. \A i \in 1..Len(m) : m[i] # EOF
    BY <1>4, <2>1, <2>2
  <2>6. Position(state[s], m, n, co, so)
    <3>1. so = m[1].off + Len(m) - 2 /\ Len(m) > 1 /\ m[1] = FullResync(m[1].off)
      BY <1>1, <2>1, <2>2
    <3> QED BY <1>6, <3>1 DEF Position
  <2> QED BY <1>4, <2>4, <2>5, <2>6 DEF Fit, Open
<1>7. CASE state[s] = "WAITING_SNAPSHOT" /\ stream[s] = <<>> /\ co = so
  <2>1. m = <<b>> /\ Len(m) = 1 /\ m[1] = b /\ m # <<>>
    BY <1>4, <1>7, OneMessage
  <2>2. Incoming(state[s], m, n, co, history, store)
    BY <1>5, <1>7, <2>1 DEF Incoming, Handshake
  <2>3. \A i \in 1..Len(m) : m[i] # EOF
    BY <1>4, <2>1
  <2>4. Position(state[s], m, n, co, so)
    <3>1. so = co + Len(m) - 1
      BY <1>1, <1>7, <2>1
    <3> QED BY <1>7, <2>1, <3>1 DEF Position
  <2> QED BY <1>4, <2>2, <2>3, <2>4 DEF Fit, Open
<1> QED BY <1>3, <1>6, <1>7

LEMMA SnapshotSentStep ==
  ASSUME RInv, NEW s \in Slaves, SnapshotSent(s), UNCHANGED slaveVars
  PROVE  RInv'
<1> DEFINE f == file_sending[s]
           st == [sync_state EXCEPT ![s] = "SYNCED"]
           out == [Silent EXCEPT ![s] = <<Snapshot(f)>>]
<1>1. /\ sync_state[s] = "SYNCING_SNAPSHOT" /\ file_sending' = [file_sending EXCEPT ![s] = None]
      /\ Sync({s}, st, sync_offset, writing, out, history, log_start)
      /\ UNCHANGED <<workVars, logVars, saveVars, request>>
  BY DEF SnapshotSent
<1>2. /\ sync_state \in [Slaves -> SyncStates] /\ sync_offset \in [Slaves -> Nat]
      /\ writing \in [Slaves -> {"off", "once", "on"}] /\ request' \in [Slaves -> Seq(Request)]
      /\ file_sending \in [Slaves -> Seq(Commands) \cup {None}]
      /\ Ends(s) /\ Asked(s)
  BY <1>1 DEF RInv, Shape, LinkShape, MasterShape, Local
<1>3. f \in Seq(Commands) /\ <<Snapshot(f)>> \in Seq(Message)
  BY <1>1, <1>2, Messages, OneMessage DEF Ends
<1>4. "master" \in ends[s] /\ request[s] = <<>> /\ sync_offset[s] <= Len(history)
  BY <1>1, <1>2 DEF Ends, Asked
<1>5. st \in [Slaves -> SyncStates] /\ st[s] = "SYNCED"
      /\ \A t \in Slaves \ {s} : st[t] = sync_state[t]
  BY <1>2 DEF SyncStates
<1>6. /\ out \in [Slaves -> Seq(Message)] /\ out[s] = <<Snapshot(f)>>
      /\ \A t \in Slaves \ {s} : out[t] = <<>>
  BY <1>3, SilentFacts DEF Silent
<1>7. /\ file_sending' \in [Slaves -> Seq(Commands) \cup {None}] /\ request'[s] = <<>>
      /\ \A t \in Slaves \ {s} : request'[t] = request[t] /\ file_sending'[t] = file_sending[t]
  BY <1>1, <1>2, <1>4
<1>8. Fit(s, ends[s], "SYNCED", sync_offset[s], Written(s, <<Snapshot(f)>>), file_sending'[s],
          history, store)
  <2>1. CASE "slave" \notin ends[s]
    BY <1>2, <2>1, NobodyReads
  <2>2. CASE "slave" \in ends[s]
    BY <1>1, <2>2, SnapshotFits DEF Written
  <2> QED BY <2>1, <2>2
<1>9. Prepares(s, {s}, st, sync_offset, out)
  <2> HIDE DEF st, out
  <2> QED BY <1>4, <1>5, <1>6, <1>7, <1>8 DEF Prepares
<1> HIDE DEF st, out
<1> QED BY <1>1, <1>2, <1>5, <1>6, <1>7, <1>9, SyncHandler

\* After +CONTINUE the connection is at the end of the slave's log.
LEMMA ContinueFits ==
  ASSUME RInv, NEW s \in Slaves, request[s] # <<>>, "master" \in ends[s]
  PROVE  /\ request[s][1] \in Request /\ Prefix(request[s][1].wal, history)
         /\ \A fs : Fit(s, ends[s], "SYNCED", Len(request[s][1].wal), Written(s, <<Continue>>),
                        fs, history, store)
<1>1. /\ ends[s] \in SUBSET {"master", "slave"} /\ stream[s] \in Seq(Message)
      /\ request[s] \in Seq(Request) /\ wal[s] \in Seq(Commands)
      /\ Ends(s) /\ Writes(s) /\ Asked(s)
  BY DEF RInv, Shape, LinkShape, MasterShape, SlaveShape, Local
<1>2. /\ Len(request[s]) = 1 /\ Prefix(request[s][1].wal, history)
      /\ sync_state[s] \in {"absent", "NULL"}
  BY <1>1 DEF Asked
<1>3. request[s][1] \in Request
  BY <1>1, <1>2
<1>4. CASE "slave" \notin ends[s]
  BY <1>1, <1>2, <1>3, <1>4, NobodyReads
<1>5. CASE "slave" \in ends[s]
  <2>1. ends[s] = {"master", "slave"} /\ state[s] = "WAITING_PSYNC_REPLY"
        /\ request[s][1].key = server_key[s] /\ request[s][1].wal = wal[s]
    BY <1>1, <1>5 DEF Asked
  <2>2. stream[s] = <<>> /\ request[s][1].wal = wal[s]
    BY <1>1, <1>2, <2>1 DEF Writes, Open
  <2> DEFINE m == <<Continue>>
             n == Len(wal[s])
  <2>3. /\ Written(s, <<Continue>>) = m /\ Len(m) = 1 /\ m[1] = Continue /\ m # <<>>
        /\ Tail(m) = <<>> /\ Continue # EOF /\ n \in Nat
    BY <1>1, <1>5, <2>2, OneMessage, Messages, Kinds DEF Written
  <2> HIDE DEF m
  <2>4. Answer(m, n, history, store)
    BY <2>3, NoFlow DEF Answer
  <2>5. Incoming(state[s], m, n, cached_offset[s], history, store)
    BY <2>1, <2>4 DEF Incoming, Handshake
  <2>6. \A i \in 1..Len(m) : m[i] # EOF
    BY <2>3
  <2>7. Position(state[s], m, n, cached_offset[s], n)
    BY <2>1, <2>3 DEF Position
  <2>8. \A fs : Fit(s, ends[s], "SYNCED", n, m, fs, history, store)
    BY <2>5, <2>6, <2>7 DEF Fit, Open
  <2> QED BY <1>2, <1>3, <2>2, <2>3, <2>8
<1> QED BY <1>4, <1>5

\* AddSlave with a valid offset: the slave continues from its own log.
LEMMA AddSlaveContinues ==
  ASSUME RInv, NEW s \in Slaves, UNCHANGED slaveVars, request[s] # <<>>, "master" \in ends[s],
         request' = [request EXCEPT ![s] = <<>>],
         UNCHANGED <<workVars, logVars, saveVars, file_sending>>,
         NEW st, st = [sync_state EXCEPT ![s] = "SYNCED"],
         NEW so, so = [sync_offset EXCEPT ![s] = Len(request[s][1].wal)],
         NEW wr, wr = [writing EXCEPT ![s] = "off"],
         Sync(Lagging(st, so, log_start), st, so, wr,
              [Silent EXCEPT ![s] = <<Continue>>], history, log_start)
  PROVE  RInv'
<1> DEFINE out == [Silent EXCEPT ![s] = <<Continue>>]
           S == Lagging(st, so, log_start)
<1>1. /\ sync_state \in [Slaves -> SyncStates] /\ sync_offset \in [Slaves -> Nat]
      /\ writing \in [Slaves -> {"off", "once", "on"}] /\ request \in [Slaves -> Seq(Request)]
      /\ file_sending \in [Slaves -> Seq(Commands) \cup {None}]
  BY DEF RInv, Shape, LinkShape, MasterShape
<1>2. /\ request[s][1] \in Request /\ Prefix(request[s][1].wal, history)
      /\ \A fs : Fit(s, ends[s], "SYNCED", Len(request[s][1].wal), Written(s, <<Continue>>),
                     fs, history, store)
  BY ContinueFits
<1>3. Len(request[s][1].wal) \in Nat /\ Len(request[s][1].wal) <= Len(history)
  BY <1>2 DEF Request, Prefix
<1>4. /\ st \in [Slaves -> SyncStates] /\ st[s] = "SYNCED"
      /\ so \in [Slaves -> Nat] /\ so[s] = Len(request[s][1].wal)
      /\ wr \in [Slaves -> {"off", "once", "on"}]
      /\ \A t \in Slaves \ {s} : st[t] = sync_state[t] /\ so[t] = sync_offset[t]
  BY <1>1, <1>3 DEF SyncStates
<1>5. /\ out \in [Slaves -> Seq(Message)] /\ out[s] = <<Continue>>
      /\ \A t \in Slaves \ {s} : out[t] = <<>>
  BY SilentFacts, Messages, OneMessage DEF Silent
<1>6. /\ request' \in [Slaves -> Seq(Request)] /\ request'[s] = <<>>
      /\ file_sending' \in [Slaves -> Seq(Commands) \cup {None}]
      /\ \A t \in Slaves \ {s} : request'[t] = request[t] /\ file_sending'[t] = file_sending[t]
  BY <1>1
<1>7. \A t \in S : st[t] = "SYNCED"
  BY DEF Lagging
<1>8. Prepares(s, S, st, so, out)
  <2> HIDE DEF S, out
  <2> QED BY <1>2, <1>3, <1>4, <1>5, <1>6, <1>7 DEF Prepares
<1>9. Sync(S, st, so, wr, out, history, log_start)
  OBVIOUS
<1> HIDE DEF S, out
<1> QED BY <1>4, <1>5, <1>6, <1>8, <1>9, SyncHandler

\* AddSlave with any other offset: the slave waits for a snapshot, for which
\* a save is under way.
LEMMA AddSlaveWaits ==
  ASSUME RInv, NEW s \in Slaves, UNCHANGED slaveVars, request[s] # <<>>, "master" \in ends[s],
         request' = [request EXCEPT ![s] = <<>>],
         UNCHANGED <<workVars, logVars, file_sending, ends, stream>>,
         sync_state' = [sync_state EXCEPT ![s] = "WAITING_SNAPSHOT"],
         sync_offset' = [sync_offset EXCEPT ![s] = Len(request[s][1].wal)],
         writing' = [writing EXCEPT ![s] = "off"],
         \/ snapshot_saving' = Len(history) /\ backup' = None
         \/ snapshot_saving # -1 /\ UNCHANGED saveVars
  PROVE  RInv'
<1>1. /\ sync_state \in [Slaves -> SyncStates] /\ sync_offset \in [Slaves -> Nat]
      /\ writing \in [Slaves -> {"off", "once", "on"}] /\ request \in [Slaves -> Seq(Request)]
      /\ Len(history) \in Nat /\ history' = history /\ store' = store
  BY DEF RInv, Shape, LinkShape, MasterShape, logVars, workVars
<1>2. request[s][1] \in Request /\ Prefix(request[s][1].wal, history)
  BY ContinueFits
<1>3. Len(request[s][1].wal) \in Nat /\ Len(request[s][1].wal) <= Len(history)
  BY <1>2 DEF Request, Prefix
<1>4. Grows
  BY <1>1, SameHistoryGrows DEF RInv
<1>5. /\ sync_state' \in [Slaves -> SyncStates] /\ sync_state'[s] = "WAITING_SNAPSHOT"
      /\ sync_offset' \in [Slaves -> Nat] /\ sync_offset'[s] <= Len(history)
      /\ request' \in [Slaves -> Seq(Request)] /\ request'[s] = <<>>
      /\ \A t \in Slaves \ {s} : /\ sync_state'[t] = sync_state[t] /\ request'[t] = request[t]
                                 /\ sync_offset'[t] = sync_offset[t]
  BY <1>1, <1>3 DEF SyncStates
<1>6. snapshot_saving' # -1 /\ snapshot_saving' \in -1..Len(history')
      /\ backup' \in Seq(Commands) \cup {None}
  BY <1>1 DEF RInv, Shape, MasterShape, saveVars
<1>7. Shape'
  <2>1. LinkShape'
    BY <1>5 DEF RInv, Shape, LinkShape
  <2> QED BY <1>1, <1>5, <1>6, <2>1, SlavesStill DEF RInv, Shape, MasterShape, logVars, workVars
<1>8. Executed'
  BY DEF RInv, Executed, logVars, workVars
<1>9. Saving'
  BY <1>1, <1>6 DEF RInv, Saving, saveVars
<1>10. Local(s)'
  <2>1. SameSlave(s) /\ Ends(s) /\ Asked(s) /\ Reads(s) /\ Writes(s)
    BY SlavesStill DEF RInv, Local
  <2>2. Ends(s)' /\ Asked(s)'
    BY <1>1, <1>5, <2>1 DEF Ends, Asked, SameSlave
  <2>3. /\ sync_state[s] \in {"absent", "NULL"}
        /\ "slave" \in ends[s] => state[s] = "WAITING_PSYNC_REPLY"
    BY <2>1 DEF Asked
  <2>4. Fit(s, ends'[s], sync_state'[s], sync_offset'[s], stream'[s], file_sending'[s],
            history', store')
    BY <1>1, <1>5, <2>1, <2>3 DEF Fit, Open, Reads, Writes
  <2> QED BY <1>4, <2>1, <2>2, <2>4, LinkStep
<1>11. ASSUME NEW t \in Slaves \ {s} PROVE Local(t)'
  <2>1. SameLink(t) /\ SameSlave(t) /\ Shape /\ Local(t)
    BY <1>5, SlavesStill DEF RInv, SameLink
  <2> QED BY <1>4, <2>1, LinkFrame
<1> QED BY <1>7, <1>8, <1>9, <1>10, <1>11 DEF RInv

LEMMA AddSlaveStep ==
  ASSUME RInv, NEW s \in Slaves, AddSlave(s), UNCHANGED slaveVars
  PROVE  RInv'
<1> DEFINE r == request[s][1]
           so == [sync_offset EXCEPT ![s] = Len(r.wal)]
           wr == [writing EXCEPT ![s] = "off"]
           st == [sync_state EXCEPT ![s] = "SYNCED"]
<1>1. /\ request[s] # <<>> /\ "master" \in ends[s] /\ request' = [request EXCEPT ![s] = <<>>]
      /\ UNCHANGED <<workVars, logVars, file_sending>>
  BY DEF AddSlave
<1>2. CASE r.key = MasterKey /\ IsValidOffsetCksm(r)
  <2>1. /\ Sync(Lagging(st, so, log_start), st, so, wr, [Silent EXCEPT ![s] = <<Continue>>],
                history, log_start)
        /\ UNCHANGED saveVars
    BY <1>2 DEF AddSlave
  <2> QED BY <1>1, <2>1, AddSlaveContinues
<1>3. CASE ~(r.key = MasterKey /\ IsValidOffsetCksm(r))
  <2>1. /\ sync_state' = [sync_state EXCEPT ![s] = "WAITING_SNAPSHOT"]
        /\ sync_offset' = so /\ writing' = wr /\ UNCHANGED <<ends, stream>>
        /\ \/ snapshot_saving' = Len(history) /\ backup' = None
           \/ snapshot_saving # -1 /\ UNCHANGED saveVars
    BY <1>3 DEF AddSlave
  <2> QED BY <1>1, <2>1, AddSlaveWaits
<1> QED BY <1>2, <1>3

\* SaveDone announces the offset of the save to those who wait, and sends them
\* the copy that was made for it.
LEMMA SaveDoneStep ==
  ASSUME RInv, SaveDone, UNCHANGED slaveVars
  PROVE  RInv'
<1> DEFINE o == snapshot_saving
           a == FullResync(o)
<1>0. /\ o # -1 /\ backup # None /\ snapshot_saving' = -1 /\ backup' = None
      /\ sync_state' = [s \in Slaves |-> IF s \in Waiting THEN "SYNCING_SNAPSHOT" ELSE sync_state[s]]
      /\ sync_offset' = [s \in Slaves |-> IF s \in Waiting THEN o ELSE sync_offset[s]]
      /\ file_sending' = [s \in Slaves |-> IF s \in Waiting THEN backup ELSE file_sending[s]]
      /\ writing' = [s \in Slaves |-> IF s \in Waiting THEN "on" ELSE writing[s]]
      /\ stream' = [s \in Slaves |-> IF s \in Waiting THEN Written(s, <<a>>) ELSE stream[s]]
      /\ UNCHANGED <<workVars, logVars, ends, request>>
  BY DEF SaveDone, SavedOffset
<1>1. /\ Shape /\ MasterShape /\ LinkShape /\ Covers(backup, o, history, store)
      /\ history' = history /\ store' = store
  BY <1>0 DEF RInv, Shape, Saving, logVars, workVars
<1>2. /\ backup \in Seq(Commands) /\ o \in Nat /\ o \in 0..Len(history) /\ Len(history) \in Nat
      /\ a \in Message /\ a # EOF
  BY <1>0, <1>1, Messages, Kinds DEF MasterShape
<1>3. Grows
  BY <1>1, SameHistoryGrows
<1>4. ASSUME NEW s \in Slaves
      PROVE  /\ Local(s)' /\ stream'[s] \in Seq(Message) /\ sync_state'[s] \in SyncStates
             /\ sync_offset'[s] \in Nat /\ writing'[s] \in {"off", "once", "on"}
             /\ file_sending'[s] \in Seq(Commands) \cup {None}
             /\ sync_state'[s] # "WAITING_SNAPSHOT"
  <2>1. SameSlave(s) /\ Ends(s) /\ Asked(s) /\ Reads(s) /\ Writes(s) /\ Local(s)
    BY <1>1, SlavesStill DEF RInv, Local
  <2>2. /\ stream[s] \in Seq(Message) /\ sync_state[s] \in SyncStates /\ sync_offset[s] \in Nat
        /\ writing[s] \in {"off", "once", "on"} /\ file_sending[s] \in Seq(Commands) \cup {None}
        /\ ends[s] \in SUBSET {"master", "slave"}
    BY <1>1 DEF MasterShape, LinkShape
  <2>3. CASE s \notin Waiting
    <3>1. SameLink(s)
      BY <1>0, <2>3 DEF SameLink
    <3>2. Local(s)'
      BY <1>1, <1>3, <2>1, <3>1, LinkFrame
    <3> QED BY <1>0, <2>2, <2>3, <3>2 DEF Waiting
  <2>4. CASE s \in Waiting
    <3>1. sync_state[s] = "WAITING_SNAPSHOT" /\ "master" \in ends[s]
      BY <2>1, <2>4 DEF Waiting, Ends
    <3>2. /\ ends'[s] = ends[s] /\ request'[s] = request[s] /\ sync_state'[s] = "SYNCING_SNAPSHOT"
          /\ sync_offset'[s] = o /\ file_sending'[s] = backup /\ writing'[s] = "on"
          /\ stream'[s] = Written(s, <<a>>)
      BY <1>0, <2>4
    <3>3. request[s] = <<>>
      BY <2>1, <3>1 DEF Asked
    <3>4. CASE "slave" \notin ends[s]
      <4>1. stream'[s] = <<>>
        BY <2>1, <3>2, <3>4 DEF Written, Ends
      <4>2. Ends(s)' /\ Asked(s)'
        BY <1>0, <1>1, <1>2, <2>1, <3>1, <3>2, <3>3, <3>4, <4>1 DEF Ends, Asked, SameSlave
      <4>3. Fit(s, ends'[s], sync_state'[s], sync_offset'[s], stream'[s], file_sending'[s],
                history', store')
        BY <2>1, <3>2, <3>4, NobodyReads
      <4>4. Local(s)'
        BY <1>3, <2>1, <4>2, <4>3, LinkStep
      <4> QED BY <1>2, <3>2, <4>1, <4>4, EmptySeq DEF SyncStates
    <3>5. CASE "slave" \in ends[s]
      <4>1. ends[s] = {"master", "slave"} /\ state[s] = "WAITING_PSYNC_REPLY" /\ stream[s] = <<>>
        BY <2>1, <2>2, <3>1, <3>5 DEF Writes, Open
      <4> DEFINE m == <<a>>
      <4>2. /\ stream'[s] = m /\ m \in Seq(Message) /\ Len(m) = 1 /\ m[1] = a /\ m # <<>>
            /\ Tail(m) = <<>>
        BY <1>2, <3>2, <3>5, <4>1, OneMessage DEF Written
      <4> HIDE DEF m
      <4>3. Ends(s)' /\ Asked(s)'
        BY <1>0, <1>1, <1>2, <2>1, <3>1, <3>2, <3>3, <3>5 DEF Ends, Asked, SameSlave
      <4>4. Dump(Tail(m), o, history, store)
        BY <4>2, NoFlow DEF Dump
      <4>5. Answer(m, Len(wal[s]), history, store)
        BY <1>2, <4>2, <4>4 DEF Answer
      <4>6. Incoming(state[s], m, Len(wal[s]), cached_offset[s], history, store)
        BY <4>1, <4>5 DEF Incoming, Handshake
      <4>7. \A i \in 1..Len(m) : m[i] # EOF
        BY <1>2, <4>2
      <4>8. Fit(s, ends'[s], sync_state'[s], sync_offset'[s], stream'[s], file_sending'[s],
                history', store')
        BY <1>0, <1>1, <3>2, <4>1, <4>2, <4>6, <4>7 DEF Fit, Open
      <4>9. Local(s)'
        BY <1>3, <2>1, <4>3, <4>8, LinkStep
      <4> QED BY <1>2, <3>2, <4>2, <4>9 DEF SyncStates
    <3> QED BY <3>4, <3>5
  <2> QED BY <2>3, <2>4
<1>5. LinkShape'
  BY <1>0, <1>1, <1>4 DEF LinkShape
<1>6. Shape'
  <2>1. /\ sync_state' \in [Slaves -> SyncStates] /\ sync_offset' \in [Slaves -> Nat]
        /\ writing' \in [Slaves -> {"off", "once", "on"}]
        /\ file_sending' \in [Slaves -> Seq(Commands) \cup {None}]
    BY <1>0, <1>4
  <2> QED BY <1>0, <1>1, <1>2, <1>5, <2>1, SlavesStill DEF Shape, MasterShape, logVars, workVars
<1>7. Executed'
  BY <1>0 DEF RInv, Executed, logVars, workVars
<1>8. Saving'
  BY <1>0, <1>4 DEF Saving
<1> QED BY <1>4, <1>6, <1>7, <1>8 DEF RInv
-----------------------------------------------------------------------------
(***************************************************************************)
(* Steps of a slave.                                                       *)
(***************************************************************************)

\* A step that leaves the other slaves and their connections alone.
OthersStill(s) ==
  \A t \in Slaves \ {s} :
    SameSlave(t) /\ ends'[t] = ends[t] /\ request'[t] = request[t] /\ stream'[t] = stream[t]

LEMMA MasterStill ==
  ASSUME RInv, UNCHANGED masterVars
  PROVE  /\ MasterShape' /\ Executed' /\ Saving' /\ Grows /\ history' = history /\ store' = store
         /\ sync_state' = sync_state /\ sync_offset' = sync_offset /\ file_sending' = file_sending
<1>1. /\ UNCHANGED <<store, posting, queue, history, log_start, snapshot_saving, backup>>
      /\ UNCHANGED <<sync_state, sync_offset, writing, file_sending>>
  BY DEF masterVars, workVars, logVars, saveVars, slaveConnVars
<1>2. MasterShape'
  BY <1>1 DEF RInv, Shape, MasterShape
<1>3. Executed'
  BY <1>1 DEF RInv, Executed
<1>4. Saving'
  BY <1>1 DEF RInv, Saving
<1>5. Grows
  BY <1>1, SameHistoryGrows DEF RInv
<1> QED BY <1>1, <1>2, <1>3, <1>4, <1>5

LEMMA SlaveStep ==
  ASSUME RInv, NEW s \in Slaves, UNCHANGED masterVars, LinkShape', SlaveShape',
         OthersStill(s), Local(s)'
  PROVE  RInv'
<1>1. /\ MasterShape' /\ Executed' /\ Saving' /\ Grows
      /\ sync_state' = sync_state /\ sync_offset' = sync_offset /\ file_sending' = file_sending
  BY MasterStill
<1>2. ASSUME NEW t \in Slaves \ {s} PROVE Local(t)'
  <2>1. SameSlave(t) /\ SameLink(t) /\ Shape /\ Local(t)
    BY <1>1 DEF RInv, OthersStill, SameLink
  <2> QED BY <1>1, <2>1, LinkFrame
<1> QED BY <1>1, <1>2 DEF RInv, Shape

\* What is known of slave s and its connection.
LEMMA Known ==
  ASSUME RInv, NEW s \in Slaves
  PROVE  /\ ends[s] \in SUBSET {"master", "slave"} /\ stream[s] \in Seq(Message)
         /\ request[s] \in Seq(Request) /\ sync_state[s] \in SyncStates /\ sync_offset[s] \in Nat
         /\ state[s] \in SlaveStates /\ server_key[s] \in {MasterKey, OtherKey}
         /\ data_offset[s] \in Nat /\ cached_offset[s] \in Nat /\ replay_end[s] \in Nat
         /\ wal_start[s] \in Nat /\ wal[s] \in Seq(Commands) /\ db[s] \in Seq(Commands)
         /\ snapshot[s] \in Seq(Commands) /\ loading[s] \in {"no", "running", "keyed"}
         /\ stale[s] \in BOOLEAN /\ history \in Seq(Commands) /\ store \in Seq(Commands)
         /\ Len(wal[s]) \in Nat /\ Len(history) \in Nat
         /\ Ends(s) /\ Asked(s) /\ Reads(s) /\ Writes(s) /\ Logged(s) /\ Stored(s)
<1>1. LinkShape /\ MasterShape /\ SlaveShape /\ Local(s)
  BY DEF RInv, Shape
<1>2. ends[s] \in SUBSET {"master", "slave"} /\ stream[s] \in Seq(Message) /\ request[s] \in Seq(Request)
  BY <1>1 DEF LinkShape
<1>3. /\ sync_state[s] \in SyncStates /\ sync_offset[s] \in Nat /\ history \in Seq(Commands)
      /\ store \in Seq(Commands) /\ Len(history) \in Nat
  BY <1>1 DEF MasterShape
<1>4. /\ state[s] \in SlaveStates /\ server_key[s] \in {MasterKey, OtherKey}
      /\ data_offset[s] \in Nat /\ cached_offset[s] \in Nat /\ replay_end[s] \in Nat
      /\ wal_start[s] \in Nat /\ wal[s] \in Seq(Commands) /\ db[s] \in Seq(Commands)
      /\ snapshot[s] \in Seq(Commands) /\ loading[s] \in {"no", "running", "keyed"}
      /\ stale[s] \in BOOLEAN /\ Len(wal[s]) \in Nat
  BY <1>1 DEF SlaveShape
<1> QED BY <1>1, <1>2, <1>3, <1>4 DEF Local

\* A replay that begins goes to the end of the log, and has something to do.
LEMMA ReplayFacts ==
  ASSUME NEW s \in Slaves, NEW st, NEW w, NEW start, NEW cache, NEW off,
         ReplayWAL(s, st, w, start, cache, off), Len(w) \in Nat, replay_end[s] \in Nat
  PROVE  \E e \in Nat : /\ replay_end' = [replay_end EXCEPT ![s] = e]
                        /\ e = replay_end[s] \/ (st = "SYNCED" /\ e = Len(w) /\ off # Len(w))
<1> DEFINE begins == /\ st = "SYNCED" /\ off # Len(w) /\ replay_end[s] = 0
                     /\ FromCache(SlaveCacheSize, cache, off) \/ off >= start
<1>1. replay_end' = [replay_end EXCEPT ![s] = IF begins THEN Len(w) ELSE replay_end[s]]
  BY DEF ReplayWAL
<1>2. CASE begins
  BY <1>1, <1>2
<1>3. CASE ~begins
  BY <1>1, <1>3
<1> QED BY <1>2, <1>3

\* The timer starts a replay of what the store lacks.
LEMMA RoutineStep ==
  ASSUME RInv, NEW s \in Slaves, Routine(s), UNCHANGED masterVars
  PROVE  RInv'
<1>0. /\ replay_end[s] = 0
      /\ ReplayWAL(s, state[s], wal[s], wal_start[s], wal_cache_start[s], data_offset[s])
      /\ UNCHANGED <<dataVars, state, cached_offset, snapshot, loading, linkVars>>
  BY DEF Routine
<1>1. /\ Shape /\ LinkShape /\ SlaveShape /\ Len(wal[s]) \in Nat /\ data_offset[s] \in Nat
      /\ Ends(s) /\ Asked(s) /\ Reads(s) /\ Writes(s) /\ Logged(s) /\ Stored(s)
  BY Known DEF RInv, Shape
<1>2. PICK e \in Nat :
        /\ replay_end' = [replay_end EXCEPT ![s] = e]
        /\ e # 0 => state[s] = "SYNCED" /\ e = Len(wal[s]) /\ data_offset[s] # Len(wal[s])
  <2>1. replay_end[s] \in Nat
    BY Known
  <2> QED BY <1>0, <1>1, <2>1, ReplayFacts
<1>3. LinkShape' /\ SlaveShape'
  BY <1>0, <1>1, <1>2 DEF LinkShape, SlaveShape, dataVars, linkVars, connVars
<1>4. OthersStill(s)
  BY <1>0, <1>1, <1>2 DEF OthersStill, SameSlave, SlaveShape, dataVars, linkVars, connVars
<1>5. Ends(s)' /\ Asked(s)' /\ Reads(s)' /\ Writes(s)'
  BY <1>0, <1>1, MasterStill DEF Ends, Asked, Reads, Writes, dataVars, linkVars, connVars
<1>6. replay_end'[s] = e
  BY <1>0, <1>1, <1>2 DEF SlaveShape
<1>7. Logged(s)'
  BY <1>0, <1>1, <1>2, <1>6, MasterStill DEF Logged, dataVars
<1>8. Stored(s)'
  BY <1>0, <1>1, <1>2, <1>6, MasterStill DEF Stored, dataVars
<1> QED BY <1>3, <1>4, <1>5, <1>7, <1>8, SlaveStep DEF Local

\* A command that the ring has kept is the next one of the master's log; and
\* whatever is taken for a command is in its store.
LEMMA KeptFacts ==
  ASSUME RInv, NEW s \in Slaves, NEW o \in Nat \ {0}, Kept(s, o)
  PROVE  /\ o <= Len(wal[s]) /\ o <= Len(history) /\ wal[s][o] = history[o]
         /\ wal[s][o] \in Commands /\ wal[s][o] \in Elements(store) \cup {PING}
<1>1. /\ wal[s] \in Seq(Commands) /\ Len(wal[s]) \in Nat /\ history \in Seq(Commands)
      /\ Prefix(wal[s], history) /\ Len(history) \in Nat
  BY Known DEF Logged
<1>2. o <= Len(wal[s]) /\ o \in 1..Len(wal[s])
  BY <1>1 DEF Kept
<1>3. wal[s][o] = history[o] /\ o <= Len(history) /\ o \in DOMAIN history /\ wal[s][o] \in Commands
  BY <1>1, <1>2 DEF Prefix
<1> QED BY <1>2, <1>3 DEF RInv, Executed, Elements

LEMMA AnythingFacts ==
  ASSUME RInv, NEW s \in Slaves, NEW c \in Anything(s)
  PROVE  c \in Commands
<1>1. wal[s] \in Seq(Commands) /\ PING \in Commands
  BY Known, MasterAssumption DEF Commands, PING
<1> QED BY <1>1 DEF Anything

\* A replay applies the next command, or is left.
LEMMA ReplayStepStep ==
  ASSUME RInv, NEW s \in Slaves, ReplayStep(s), UNCHANGED masterVars
  PROVE  RInv'
<1>0. /\ replay_end[s] # 0
      /\ UNCHANGED <<server_key, wal, wal_start, state, cached_offset, snapshot, loading, linkVars>>
  BY DEF ReplayStep
<1>1. /\ Shape /\ LinkShape /\ SlaveShape /\ Len(wal[s]) \in Nat /\ data_offset[s] \in Nat
      /\ replay_end[s] \in Nat /\ stale[s] \in BOOLEAN /\ db[s] \in Seq(Commands)
      /\ history \in Seq(Commands) /\ store \in Seq(Commands) /\ Len(history) \in Nat
      /\ Ends(s) /\ Asked(s) /\ Reads(s) /\ Writes(s) /\ Logged(s) /\ Stored(s)
  BY Known DEF RInv, Shape
<1>2. LinkShape'
  BY <1>0, <1>1 DEF LinkShape, linkVars, connVars
<1>3. Ends(s)' /\ Asked(s)' /\ Reads(s)' /\ Writes(s)'
  BY <1>0, <1>1, MasterStill DEF Ends, Asked, Reads, Writes, linkVars, connVars
<1>4. CASE /\ replay_end' = [replay_end EXCEPT ![s] = 0]
           /\ UNCHANGED <<db, data_offset, stale>>
  <2>1. SlaveShape' /\ replay_end'[s] = 0
    BY <1>0, <1>1, <1>4 DEF SlaveShape
  <2>2. OthersStill(s)
    BY <1>0, <1>1, <1>4 DEF OthersStill, SameSlave, SlaveShape, linkVars, connVars
  <2>3. Logged(s)'
    BY <1>0, <1>1, <2>1, MasterStill DEF Logged
  <2>4. Stored(s)'
    BY <1>0, <1>1, <1>4, <2>1, MasterStill DEF Stored
  <2> QED BY <1>2, <1>3, <2>1, <2>2, <2>3, <2>4, SlaveStep DEF Local
<1>5. ASSUME state[s] = "SYNCED", NEW c \in Commands, Apply(s, c), NEW b \in BOOLEAN,
             stale' = [stale EXCEPT ![s] = b],
             ~b => /\ ~stale[s] /\ c \in Elements(store) \cup {PING}
                   /\ data_offset[s] + 1 <= Len(wal[s]) /\ data_offset[s] + 1 <= Len(history)
                   /\ c = history[data_offset[s] + 1],
             \/ data_offset[s] + 1 < replay_end[s] /\ replay_end' = replay_end
             \/ replay_end' = [replay_end EXCEPT ![s] = 0]
      PROVE  RInv'
  <2> DEFINE d == IF c = PING THEN db[s] ELSE Append(db[s], c)
             o == data_offset[s]
  <2>1. PICK e \in Nat : /\ replay_end' = [replay_end EXCEPT ![s] = e]
                         /\ e # 0 => o + 1 < e /\ e = replay_end[s]
    <3>1. CASE o + 1 < replay_end[s] /\ replay_end' = replay_end
      <4>1. replay_end' = [replay_end EXCEPT ![s] = replay_end[s]]
        BY <1>1, <3>1 DEF SlaveShape
      <4> QED BY <1>1, <3>1, <4>1
    <3> QED BY <1>5, <3>1
  <2>2. d \in Seq(Commands) /\ o + 1 \in Nat
    BY <1>1, AppendFacts
  <2>3. /\ db' = [db EXCEPT ![s] = d] /\ data_offset' = [data_offset EXCEPT ![s] = o + 1]
    BY <1>5 DEF Apply
  <2> HIDE DEF d
  <2>4. /\ db'[s] = d /\ data_offset'[s] = o + 1 /\ replay_end'[s] = e /\ stale'[s] = b
    BY <1>1, <1>5, <2>1, <2>3 DEF SlaveShape
  <2>5. SlaveShape'
    BY <1>0, <1>1, <1>5, <2>1, <2>2, <2>3 DEF SlaveShape
  <2>6. OthersStill(s)
    BY <1>0, <1>1, <1>5, <2>1, <2>3 DEF OthersStill, SameSlave, SlaveShape, linkVars, connVars
  <2>7. Logged(s)'
    BY <1>0, <1>1, <1>5, <2>4, MasterStill DEF Logged
  <2>8. Stored(s)'
    <3>1. loading'[s] = "no" /\ loading[s] = "no"
      BY <1>0, <1>1, <1>5, Known DEF Logged
    <3>2. ASSUME server_key[s] = MasterKey, ~b
          PROVE  /\ o + 1 <= Len(wal[s]) /\ Covers(d, o + 1, history, store)
                 /\ e # 0 => o + 1 < e /\ e <= Len(wal[s])
      <4>1. /\ o <= Len(wal[s]) /\ Covers(db[s], o, history, store)
            /\ o < replay_end[s] /\ replay_end[s] <= Len(wal[s])
        BY <1>0, <1>1, <1>5, <3>1, <3>2 DEF Stored
      <4>2. o < Len(history) /\ c = history[o + 1] /\ c \in Elements(store) \cup {PING}
        BY <1>1, <1>5, <3>2
      <4>3. Covers(d, o + 1, history, store)
        BY <1>1, <4>1, <4>2, CoversApply DEF d
      <4> QED BY <1>1, <1>5, <2>1, <3>2, <4>1, <4>3
    <3>3. server_key'[s] = server_key[s] /\ wal'[s] = wal[s] /\ state'[s] = state[s]
      BY <1>0
    <3> QED BY <2>4, <3>1, <3>2, <3>3, MasterStill DEF Stored
  <2> QED BY <1>2, <1>3, <2>5, <2>6, <2>7, <2>8, SlaveStep DEF Local
<1> DEFINE o == data_offset[s] + 1
<1>6. CASE state[s] = "SYNCED" /\ Kept(s, o) /\ Apply(s, wal[s][o]) /\ UNCHANGED stale
           /\ IF o < replay_end[s] THEN UNCHANGED replayVars ELSE ReplayEnds(s)
  <2>1. /\ o <= Len(wal[s]) /\ o <= Len(history) /\ wal[s][o] = history[o]
        /\ wal[s][o] \in Commands /\ wal[s][o] \in Elements(store) \cup {PING}
    BY <1>1, <1>6, KeptFacts
  <2>2. stale' = [stale EXCEPT ![s] = stale[s]]
    BY <1>1, <1>6 DEF SlaveShape
  <2>3. \/ o < replay_end[s] /\ replay_end' = replay_end
        \/ replay_end' = [replay_end EXCEPT ![s] = 0]
    BY <1>6 DEF replayVars, ReplayEnds
  <2> QED BY <1>1, <1>5, <1>6, <2>1, <2>2, <2>3
<1>7. ASSUME state[s] = "SYNCED", NEW c \in Anything(s), Apply(s, c),
             stale' = [stale EXCEPT ![s] = TRUE],
             IF o < replay_end[s] THEN UNCHANGED replayVars ELSE ReplayEnds(s)
      PROVE  RInv'
  <2>1. c \in Commands
    BY AnythingFacts
  <2>2. \/ o < replay_end[s] /\ replay_end' = replay_end
        \/ replay_end' = [replay_end EXCEPT ![s] = 0]
    BY <1>7 DEF replayVars, ReplayEnds
  <2> QED BY <1>5, <1>7, <2>1, <2>2
<1>8. CASE ReplayEnds(s) /\ UNCHANGED <<db, data_offset, stale>>
  BY <1>4, <1>8 DEF ReplayEnds
<1> QED BY <1>6, <1>7, <1>8 DEF ReplayStep

\* A slave that is not in a load or a replay.
LEMMA HandshakeFacts ==
  ASSUME RInv, NEW s \in Slaves, state[s] \notin {"LOADING_SNAPSHOT", "SYNCED"}, InLoop(s)
  PROVE  loading[s] = "no" /\ replay_end[s] = 0
  BY Known DEF Logged, InLoop

\* A step that changes only the state of a slave that is in the handshake.
LEMMA EnterStep ==
  ASSUME RInv, NEW s \in Slaves, NEW st, Enter(s, st), UNCHANGED masterVars, InLoop(s),
         state[s] \notin {"LOADING_SNAPSHOT", "SYNCED"}, st \in Handshake,
         UNCHANGED <<dataVars, cached_offset, snapshot, loading, replay_end>>
  PROVE  /\ SlaveShape' /\ Logged(s)' /\ Stored(s)' /\ state'[s] = st
         /\ \A t \in Slaves \ {s} : SameSlave(t)
<1>1. /\ SlaveShape /\ Logged(s) /\ Stored(s) /\ loading[s] = "no" /\ replay_end[s] = 0
  BY Known, HandshakeFacts DEF RInv, Shape
<1>2. state' = [state EXCEPT ![s] = st] /\ state'[s] = st
  BY <1>1 DEF Enter, SlaveShape
<1>3. SlaveShape'
  BY <1>1, <1>2 DEF SlaveShape, SlaveStates, dataVars
<1>4. Logged(s)'
  BY <1>1, <1>2, MasterStill DEF Logged, Handshake, dataVars
<1>5. Stored(s)'
  BY <1>1, <1>2, MasterStill DEF Stored, dataVars
<1>6. \A t \in Slaves \ {s} : SameSlave(t)
  BY <1>1, <1>2 DEF SameSlave, SlaveShape, dataVars
<1> QED BY <1>2, <1>3, <1>4, <1>5, <1>6

LEMMA ConnectMasterStep ==
  ASSUME RInv, NEW s \in Slaves, ConnectMaster(s), UNCHANGED masterVars
  PROVE  RInv'
<1>0. /\ InLoop(s) /\ state[s] = "INVALID" /\ ends[s] = {} /\ Enter(s, "CONNECTING")
      /\ ends' = [ends EXCEPT ![s] = {"master", "slave"}]
      /\ UNCHANGED <<dataVars, cached_offset, snapshot, loading, replay_end, request, stream>>
  BY DEF ConnectMaster, replayVars
<1>1. /\ LinkShape /\ Ends(s) /\ history \in Seq(Commands)
  BY Known DEF RInv, Shape
<1>2. /\ SlaveShape' /\ Logged(s)' /\ Stored(s)' /\ state'[s] = "CONNECTING"
      /\ \A t \in Slaves \ {s} : SameSlave(t)
  BY <1>0, EnterStep DEF Handshake
<1>3. LinkShape' /\ ends'[s] = {"master", "slave"} /\ stream'[s] = <<>> /\ request'[s] = <<>>
      /\ sync_state[s] \in {"absent", "NULL"}
  BY <1>0, <1>1 DEF LinkShape, Ends
<1>4. OthersStill(s)
  BY <1>0, <1>1, <1>2 DEF OthersStill, LinkShape
<1>5. Ends(s)' /\ Asked(s)'
  BY <1>1, <1>2, <1>3, MasterStill DEF Ends, Asked
<1>6. Reads(s)'
  BY <1>2, <1>3, NoFlow DEF Reads, Incoming, Handshake
<1>7. Writes(s)'
  BY <1>2, <1>3, MasterStill DEF Writes, Open, Handshake
<1> QED BY <1>2, <1>3, <1>4, <1>5, <1>6, <1>7, SlaveStep DEF Local

\* A connection early in the handshake: nobody has written anything.
LEMMA Early ==
  ASSUME RInv, NEW s \in Slaves, state[s] \in Handshake \ {"WAITING_PSYNC_REPLY"}
  PROVE  /\ request[s] = <<>> /\ Silence(stream[s]) /\ "slave" \in ends[s]
         /\ "master" \in ends[s] => ends[s] = {"master", "slave"} /\ stream[s] = <<>>
         /\ sync_state[s] \in {"absent", "NULL"}
<1>1. /\ Ends(s) /\ Asked(s) /\ Reads(s) /\ Writes(s) /\ ends[s] \in SUBSET {"master", "slave"}
      /\ sync_state[s] \in SyncStates
  BY Known
<1>2. "slave" \in ends[s] /\ request[s] = <<>>
  BY <1>1 DEF Ends, Asked, Handshake
<1>3. Silence(stream[s])
  BY <1>1 DEF Reads, Incoming
<1>4. CASE "master" \in ends[s]
  <2>1. ends[s] = {"master", "slave"}
    BY <1>1, <1>2, <1>4
  <2>2. sync_state[s] \in {"absent", "NULL"} /\ stream[s] = <<>>
    BY <1>1, <2>1 DEF Writes, Open, Position, Handshake, SyncStates
  <2> QED BY <1>2, <1>3, <2>1, <2>2
<1>5. CASE "master" \notin ends[s]
  BY <1>1, <1>2, <1>3, <1>5 DEF Ends
<1> QED BY <1>4, <1>5

LEMMA SlaveConnectedStep ==
  ASSUME RInv, NEW s \in Slaves, SlaveConnected(s), UNCHANGED masterVars
  PROVE  RInv'
<1> DEFINE st == IF masterauth = "set" THEN "WAITING_AUTH_REPLY" ELSE "WAITING_INFO_REPLY"
<1>0. /\ InLoop(s) /\ state[s] = "CONNECTING" /\ Enter(s, st)
      /\ UNCHANGED <<dataVars, cached_offset, snapshot, loading, replay_end, linkVars>>
  BY DEF SlaveConnected, replayVars
<1>1. st \in Handshake \ {"WAITING_PSYNC_REPLY"}
  BY DEF Handshake
<1> HIDE DEF st
<1>2. /\ SlaveShape' /\ Logged(s)' /\ Stored(s)' /\ state'[s] = st
      /\ \A t \in Slaves \ {s} : SameSlave(t)
  BY <1>0, <1>1, EnterStep
<1>3. /\ request[s] = <<>> /\ Silence(stream[s]) /\ "slave" \in ends[s]
      /\ "master" \in ends[s] => ends[s] = {"master", "slave"} /\ stream[s] = <<>>
      /\ sync_state[s] \in {"absent", "NULL"} /\ LinkShape /\ Ends(s)
  BY <1>0, Early, Known DEF Handshake, RInv, Shape
<1>4. UNCHANGED <<ends, request, stream>>
  BY <1>0 DEF linkVars, connVars
<1>5. LinkShape' /\ OthersStill(s)
  BY <1>2, <1>3, <1>4 DEF LinkShape, OthersStill
<1>6. Ends(s)' /\ Asked(s)'
  BY <1>1, <1>2, <1>3, <1>4, MasterStill DEF Ends, Asked, Handshake
<1>7. Reads(s)'
  BY <1>1, <1>2, <1>3, <1>4 DEF Reads, Incoming, Handshake
<1>8. Writes(s)'
  BY <1>1, <1>2, <1>3, <1>4, MasterStill DEF Writes, Open
<1> QED BY <1>2, <1>5, <1>6, <1>7, <1>8, SlaveStep DEF Local

\* The handshake goes on, and ends with a PSYNC that describes the slave's log.
LEMMA ReplyOKStep ==
  ASSUME RInv, NEW s \in Slaves, ReplyOK(s), UNCHANGED masterVars
  PROVE  RInv'
<1> DEFINE r == [key |-> server_key[s], wal |-> wal[s], copy |-> ~spoilt[s]]
           q == IF "master" \in ends[s] THEN <<r>> ELSE <<>>
<1>0. /\ InLoop(s) /\ UNCHANGED <<dataVars, cached_offset, snapshot, loading, replay_end, ends, stream>>
      /\ state[s] \in {"WAITING_AUTH_REPLY", "WAITING_INFO_REPLY", "WAITING_REPLCONF_REPLY"}
  BY DEF ReplyOK, replayVars
<1>1. /\ request[s] = <<>> /\ Silence(stream[s]) /\ "slave" \in ends[s]
      /\ "master" \in ends[s] => ends[s] = {"master", "slave"} /\ stream[s] = <<>>
      /\ sync_state[s] \in {"absent", "NULL"} /\ LinkShape /\ Ends(s) /\ Logged(s)
      /\ wal[s] \in Seq(Commands) /\ server_key[s] \in {MasterKey, OtherKey}
  BY <1>0, Early, Known DEF Handshake, RInv, Shape
<1>2. ASSUME NEW st, Enter(s, st), st \in Handshake \ {"WAITING_PSYNC_REPLY"}, request' = request
      PROVE  RInv'
  <2>1. /\ SlaveShape' /\ Logged(s)' /\ Stored(s)' /\ state'[s] = st
        /\ \A t \in Slaves \ {s} : SameSlave(t)
    BY <1>0, <1>2, EnterStep
  <2>2. LinkShape' /\ OthersStill(s)
    BY <1>0, <1>1, <1>2, <2>1 DEF LinkShape, OthersStill
  <2>3. Ends(s)' /\ Asked(s)'
    BY <1>0, <1>1, <1>2, <2>1, MasterStill DEF Ends, Asked, Handshake
  <2>4. Reads(s)'
    BY <1>0, <1>1, <1>2, <2>1 DEF Reads, Incoming, Handshake
  <2>5. Writes(s)'
    BY <1>0, <1>1, <1>2, <2>1, MasterStill DEF Writes, Open
  <2> QED BY <2>1, <2>2, <2>3, <2>4, <2>5, SlaveStep DEF Local
<1>3. ASSUME Enter(s, "WAITING_PSYNC_REPLY"), request' = [request EXCEPT ![s] = q]
      PROVE  RInv'
  <2>1. /\ SlaveShape' /\ Logged(s)' /\ Stored(s)' /\ state'[s] = "WAITING_PSYNC_REPLY"
        /\ \A t \in Slaves \ {s} : SameSlave(t)
    BY <1>0, <1>3, EnterStep DEF Handshake
  <2>2. r \in Request
    BY <1>1 DEF Request
  <2>4. r.key = server_key[s] /\ r.wal = wal[s]
    OBVIOUS
  <2> HIDE DEF r
  <2>3. /\ q \in Seq(Request) /\ ("master" \notin ends[s] => q = <<>>)
        /\ q # <<>> => Len(q) = 1 /\ q[1].key = server_key[s] /\ q[1].wal = wal[s]
    BY <2>2, <2>4
  <2> HIDE DEF q
  <2>5. request'[s] = q /\ request' \in [Slaves -> Seq(Request)]
        /\ \A t \in Slaves \ {s} : request'[t] = request[t]
    BY <1>1, <1>3, <2>3 DEF LinkShape
  <2>6. LinkShape' /\ OthersStill(s)
    BY <1>0, <1>1, <2>1, <2>5 DEF LinkShape, OthersStill
  <2>7. Ends(s)'
    BY <1>0, <1>1, <2>1, <2>3, <2>5, MasterStill DEF Ends
  <2>8. Asked(s)'
    <3>1. q # <<>> => Prefix(q[1].wal, history)
      BY <1>1, <2>3 DEF Logged
    <3>2. server_key'[s] = server_key[s] /\ wal'[s] = wal[s]
      BY <1>0 DEF dataVars
    <3> QED BY <1>0, <1>1, <2>1, <2>3, <2>5, <3>1, <3>2, MasterStill DEF Asked
  <2>9. Reads(s)'
    BY <1>0, <1>1, <2>1 DEF Reads, Incoming, Handshake, Answer
  <2>10. Writes(s)'
    BY <1>0, <1>1, <2>1, MasterStill DEF Writes, Open, Handshake
  <2> QED BY <2>1, <2>6, <2>7, <2>8, <2>9, <2>10, SlaveStep DEF Local
<1> QED BY <1>2, <1>3 DEF ReplyOK, Handshake

\* The slave's end is closed, whatever it was doing: what was stored remains,
\* with what a replay may have applied before data_offset was moved.
LEMMA GoneStep ==
  ASSUME RInv, NEW s \in Slaves, UNCHANGED masterVars, Enter(s, "INVALID"),
         cached_offset' = [cached_offset EXCEPT ![s] = 0], SlaveEndCloses(s),
         UNCHANGED <<server_key, data_offset, wal, wal_start>>,
         loading' \in [Slaves -> {"no", "running", "keyed"}], loading'[s] = "no",
         snapshot' \in [Slaves -> Seq(Commands)], replay_end' \in [Slaves -> Nat],
         db' \in [Slaves -> Seq(Commands)], stale' \in [Slaves -> BOOLEAN],
         \A t \in Slaves \ {s} :
           /\ loading'[t] = loading[t] /\ snapshot'[t] = snapshot[t]
           /\ replay_end'[t] = replay_end[t] /\ db'[t] = db[t] /\ stale'[t] = stale[t],
         server_key[s] = MasterKey /\ ~stale'[s] =>
           data_offset[s] <= Len(wal[s]) /\ Covers(db'[s], data_offset[s], history, store)
  PROVE  RInv'
<1>1. /\ LinkShape /\ SlaveShape /\ Ends(s) /\ Asked(s) /\ Logged(s)
  BY Known DEF RInv, Shape
<1>2. /\ ends' = [ends EXCEPT ![s] = @ \ {"slave"}] /\ stream' = [stream EXCEPT ![s] = <<>>]
      /\ request' = request /\ state' = [state EXCEPT ![s] = "INVALID"]
  BY DEF SlaveEndCloses, Enter
<1>3. /\ ends'[s] = ends[s] \ {"slave"} /\ stream'[s] = <<>> /\ state'[s] = "INVALID"
      /\ cached_offset'[s] = 0
  BY <1>1, <1>2 DEF LinkShape, SlaveShape
<1>4. LinkShape'
  BY <1>1, <1>2 DEF LinkShape
<1>5. SlaveShape'
  BY <1>1, <1>2 DEF SlaveShape, SlaveStates
<1>6. OthersStill(s)
  BY <1>1, <1>2 DEF OthersStill, SameSlave, LinkShape, SlaveShape
<1>7. Ends(s)' /\ Asked(s)'
  BY <1>1, <1>2, <1>3, MasterStill DEF Ends, Asked
<1>8. Reads(s)'
  BY <1>3 DEF Reads, Incoming, Handshake
<1>9. Writes(s)'
  <2>1. ends'[s] # {"master", "slave"}
    BY <1>3
  <2> QED BY <2>1 DEF Writes, Open
<1>10. Logged(s)'
  BY <1>1, <1>3, MasterStill DEF Logged
<1>11. Stored(s)'
  BY <1>3, MasterStill DEF Stored
<1> QED BY <1>4, <1>5, <1>6, <1>7, <1>8, <1>9, <1>10, <1>11, SlaveStep DEF Local

\* A slave that loses its connection in its event loop.
LEMMA DisconnectedStep ==
  ASSUME RInv, NEW s \in Slaves, UNCHANGED masterVars, Disconnected(s), InLoop(s),
         loading' = [loading EXCEPT ![s] = "no"]
  PROVE  RInv'
<1>1. /\ SlaveShape /\ Logged(s) /\ Stored(s) /\ loading[s] \in {"no", "running"}
  BY Known DEF RInv, Shape, InLoop
<1>2. /\ Enter(s, "INVALID") /\ cached_offset' = [cached_offset EXCEPT ![s] = 0]
      /\ SlaveEndCloses(s) /\ UNCHANGED <<server_key, data_offset, wal, wal_start>>
      /\ UNCHANGED <<db, stale, snapshot, replay_end>>
  BY DEF Disconnected, dataVars, replayVars
<1>3. /\ loading' \in [Slaves -> {"no", "running", "keyed"}] /\ loading'[s] = "no"
      /\ snapshot' \in [Slaves -> Seq(Commands)] /\ replay_end' \in [Slaves -> Nat]
      /\ db' \in [Slaves -> Seq(Commands)] /\ stale' \in [Slaves -> BOOLEAN]
      /\ \A t \in Slaves \ {s} :
           /\ loading'[t] = loading[t] /\ snapshot'[t] = snapshot[t]
           /\ replay_end'[t] = replay_end[t] /\ db'[t] = db[t] /\ stale'[t] = stale[t]
  BY <1>1, <1>2 DEF SlaveShape
<1>4. server_key[s] = MasterKey /\ ~stale'[s] =>
        data_offset[s] <= Len(wal[s]) /\ Covers(db'[s], data_offset[s], history, store)
  BY <1>1, <1>2, SlaveAssumption DEF Stored
<1> QED BY <1>2, <1>3, <1>4, GoneStep

LEMMA DisconnectStep ==
  ASSUME RInv, NEW s \in Slaves, UNCHANGED masterVars,
         ReplyError(s) \/ SlaveDisconnected(s) \/ Timeout(s)
  PROVE  RInv'
<1>1. SlaveShape /\ Logged(s) /\ loading[s] \in {"no", "running", "keyed"}
  BY Known DEF RInv, Shape
<1>2. CASE SlaveDisconnected(s)
  BY <1>2, DisconnectedStep DEF SlaveDisconnected, AbortLoad
<1>3. CASE ReplyError(s) \/ Timeout(s)
  <2>1. /\ Disconnected(s) /\ InLoop(s) /\ loading' = loading
        /\ state[s] \in {"WAITING_INFO_REPLY", "WAITING_REPLCONF_REPLY", "WAITING_PSYNC_REPLY",
                         "SYNCED"}
    BY <1>3 DEF ReplyError, Timeout
  <2>2. loading[s] = "no"
    BY <1>1, <2>1 DEF Logged
  <2>3. loading' = [loading EXCEPT ![s] = "no"]
    BY <1>1, <2>1, <2>2 DEF SlaveShape
  <2> QED BY <2>1, <2>3, DisconnectedStep
<1> QED BY <1>2, <1>3

LEMMA SlaveRestartStep ==
  ASSUME RInv, NEW s \in Slaves, UNCHANGED masterVars, SlaveRestart(s)
  PROVE  RInv'
<1> DEFINE overtaken == loading[s] = "keyed" /\ data_offset[s] > cached_offset[s]
           next == data_offset[s] + 1
<1>1. /\ SlaveShape /\ Logged(s) /\ Stored(s) /\ loading[s] \in {"no", "running", "keyed"}
      /\ data_offset[s] \in Nat /\ cached_offset[s] \in Nat /\ db[s] \in Seq(Commands)
      /\ Len(wal[s]) \in Nat /\ history \in Seq(Commands) /\ store \in Seq(Commands)
      /\ stale[s] \in BOOLEAN
  BY Known DEF RInv, Shape
<1>2. /\ Enter(s, "INVALID") /\ cached_offset' = [cached_offset EXCEPT ![s] = 0]
      /\ snapshot' = [snapshot EXCEPT ![s] = <<>>] /\ replay_end' = [replay_end EXCEPT ![s] = 0]
      /\ loading' = [loading EXCEPT ![s] = "no"] /\ SlaveEndCloses(s)
      /\ UNCHANGED <<server_key, data_offset, wal, wal_start>>
  BY DEF SlaveRestart, AbortLoad, ReplayEnds
<1>3. PICK d \in Seq(Commands), b \in BOOLEAN :
        /\ db' = [db EXCEPT ![s] = d] /\ stale' = [stale EXCEPT ![s] = b]
        /\ \/ d = db[s] /\ b = (stale[s] \/ overtaken)
           \/ /\ b = stale[s] /\ state[s] = "SYNCED"
              /\ \E c \in Elements(store) : c \in Commands /\ c # PING /\ d = Append(db[s], c)
           \/ b
  <2>1. CASE UNCHANGED db /\ stale' = [stale EXCEPT ![s] = @ \/ overtaken]
    <3>1. db' = [db EXCEPT ![s] = db[s]]
      BY <1>1, <2>1 DEF SlaveShape
    <3>2. (stale[s] \/ overtaken) \in BOOLEAN
      OBVIOUS
    <3> QED BY <1>1, <2>1, <3>1, <3>2
  <2>2. CASE /\ state[s] = "SYNCED" /\ Kept(s, next) /\ wal[s][next] # PING
             /\ db' = [db EXCEPT ![s] = Append(@, wal[s][next])] /\ UNCHANGED stale
    <3> DEFINE c == wal[s][next]
    <3>1. c \in Commands /\ c \in Elements(store) /\ c # PING
      BY <1>1, <2>2, KeptFacts
    <3>2. Append(db[s], c) \in Seq(Commands)
      BY <1>1, <3>1, AppendFacts
    <3>3. db' = [db EXCEPT ![s] = Append(db[s], c)] /\ stale' = [stale EXCEPT ![s] = stale[s]]
      BY <1>1, <2>2 DEF SlaveShape
    <3> HIDE DEF c
    <3> QED BY <1>1, <2>2, <3>1, <3>2, <3>3
  <2>3. CASE /\ \E c \in Anything(s) \ {PING} : db' = [db EXCEPT ![s] = Append(@, c)]
             /\ stale' = [stale EXCEPT ![s] = TRUE]
    <3>1. PICK c \in Anything(s) \ {PING} : db' = [db EXCEPT ![s] = Append(db[s], c)]
      BY <2>3
    <3>2. c \in Commands
      BY AnythingFacts
    <3>3. Append(db[s], c) \in Seq(Commands)
      BY <1>1, <3>2, AppendFacts
    <3> QED BY <2>3, <3>1, <3>3
  <2> QED BY <2>1, <2>2, <2>3 DEF SlaveRestart
<1>4. db'[s] = d /\ stale'[s] = b
  BY <1>1, <1>3 DEF SlaveShape
<1>5. /\ loading' \in [Slaves -> {"no", "running", "keyed"}] /\ loading'[s] = "no"
      /\ snapshot' \in [Slaves -> Seq(Commands)] /\ replay_end' \in [Slaves -> Nat]
      /\ db' \in [Slaves -> Seq(Commands)] /\ stale' \in [Slaves -> BOOLEAN]
  BY <1>1, <1>2, <1>3 DEF SlaveShape
<1>6. \A t \in Slaves \ {s} :
        /\ loading'[t] = loading[t] /\ snapshot'[t] = snapshot[t]
        /\ replay_end'[t] = replay_end[t] /\ db'[t] = db[t] /\ stale'[t] = stale[t]
  BY <1>1, <1>2, <1>3 DEF SlaveShape
<1>7. ASSUME server_key[s] = MasterKey, ~b
      PROVE  data_offset[s] <= Len(wal[s]) /\ Covers(d, data_offset[s], history, store)
  <2>1. CASE d = db[s] /\ b = (stale[s] \/ overtaken)
    <3>1. /\ loading[s] # "running" /\ ~stale[s]
          /\ loading[s] = "keyed" => data_offset[s] <= cached_offset[s]
      <4>1. ~stale[s] /\ ~overtaken
        <5> HIDE DEF overtaken
        <5> QED BY <1>7, <2>1, Zenon
      <4>2. loading[s] = "keyed" => data_offset[s] <= cached_offset[s]
        BY <1>1, <4>1
      <4>3. loading[s] # "running"
        BY <1>1, <1>7, SlaveAssumption DEF Stored
      <4> QED BY <4>1, <4>2, <4>3
    <3>2. CASE loading[s] = "keyed"
      <4>1. cached_offset[s] <= Len(wal[s]) /\ Covers(db[s], cached_offset[s], history, store)
        BY <1>1, <3>2 DEF Logged, Stored
      <4>2. data_offset[s] <= cached_offset[s] /\ Len(history) \in Nat
        BY <1>1, <3>1, <3>2
      <4>3. d = db[s]
        BY <2>1
      <4> QED BY <1>1, <4>1, <4>2, <4>3 DEF Covers
    <3>3. CASE loading[s] = "no"
      BY <1>1, <1>7, <2>1, <3>1, <3>3 DEF Stored
    <3> QED BY <1>1, <3>1, <3>2, <3>3
  <2>2. CASE /\ b = stale[s] /\ state[s] = "SYNCED"
             /\ \E c \in Elements(store) : c \in Commands /\ c # PING /\ d = Append(db[s], c)
    <3>1. loading[s] = "no"
      BY <1>1, <2>2 DEF Logged
    <3>2. data_offset[s] <= Len(wal[s]) /\ Covers(db[s], data_offset[s], history, store)
      BY <1>1, <1>7, <2>2, <3>1 DEF Stored
    <3>3. PICK c \in Elements(store) : c \in Commands /\ c # PING /\ d = Append(db[s], c)
      BY <2>2
    <3> QED BY <1>1, <3>2, <3>3, CoversApply
  <2> QED BY <1>3, <1>7, <2>1, <2>2
<1> HIDE DEF overtaken
<1> QED BY <1>2, <1>3, <1>4, <1>5, <1>6, <1>7, GoneStep

\* A slave that reads a message: its end is open, and the PSYNC has been read.
LEMMA ReadingFacts ==
  ASSUME RInv, NEW s \in Slaves, stream[s] # <<>>, Head(stream[s]).t # "EOF", Receive(s)
  PROVE  /\ stream' \in [Slaves -> Seq(Message)] /\ stream'[s] = Tail(stream[s])
         /\ \A t \in Slaves \ {s} : stream'[t] = stream[t]
         /\ Tail(stream[s]) \in Seq(Message) /\ Len(Tail(stream[s])) = Len(stream[s]) - 1
         /\ Len(stream[s]) \in Nat \ {0} /\ Head(stream[s]) = stream[s][1]
         /\ "slave" \in ends[s] /\ request[s] = <<>> /\ ~Silence(stream[s])
         /\ "master" \in ends[s] =>
              /\ ends[s] = {"master", "slave"} /\ sync_state[s] \in SyncStates \ {"absent", "NULL"}
              /\ sync_state[s] # "WAITING_SNAPSHOT"
              /\ \A i \in 1..Len(Tail(stream[s])) : Tail(stream[s])[i] # EOF
<1> DEFINE m == stream[s]
<1>1. /\ LinkShape /\ m \in Seq(Message) /\ Ends(s) /\ Asked(s) /\ Writes(s)
      /\ ends[s] \in SUBSET {"master", "slave"} /\ sync_state[s] \in SyncStates
  BY Known DEF RInv, Shape
<1>2. /\ Tail(m) \in Seq(Message) /\ Len(Tail(m)) = Len(m) - 1 /\ Len(m) \in Nat \ {0}
      /\ \A i \in 1..Len(m) - 1 : Tail(m)[i] = m[i + 1]
      /\ Head(m) = m[1]
  BY <1>1, TailIsSeq
<1>3. stream' \in [Slaves -> Seq(Message)] /\ stream'[s] = Tail(m)
      /\ \A t \in Slaves \ {s} : stream'[t] = stream[t]
  BY <1>1, <1>2 DEF Receive, LinkShape
<1>4. "slave" \in ends[s]
  BY <1>1 DEF Ends
<1>5. ~Silence(m)
  BY <1>2, Kinds DEF Silence
<1>6. ASSUME "master" \in ends[s]
      PROVE  /\ ends[s] = {"master", "slave"} /\ sync_state[s] \in SyncStates \ {"absent", "NULL"}
             /\ sync_state[s] # "WAITING_SNAPSHOT"
             /\ \A i \in 1..Len(Tail(m)) : Tail(m)[i] # EOF
  <2>1. ends[s] = {"master", "slave"}
    BY <1>1, <1>4, <1>6
  <2>2. \A i \in 1..Len(m) : m[i] # EOF
    BY <1>1, <2>1 DEF Writes, Open
  <2>3. \A i \in 1..Len(Tail(m)) : i + 1 \in 1..Len(m)
    BY <1>2
  <2>4. sync_state[s] \notin {"absent", "NULL", "WAITING_SNAPSHOT"}
    BY <1>1, <2>1 DEF Writes, Open
  <2> QED BY <1>1, <1>2, <2>1, <2>2, <2>3, <2>4
<1>7. request[s] = <<>>
  BY <1>1, <1>6 DEF Ends, Asked
<1> QED BY <1>2, <1>3, <1>4, <1>5, <1>6, <1>7

\* The answer to PSYNC: the log is continued, or a snapshot is announced.
LEMMA PsyncReplyStep ==
  ASSUME RInv, NEW s \in Slaves, PsyncReply(s), UNCHANGED masterVars
  PROVE  RInv'
<1> DEFINE m == stream[s]
           n == Len(wal[s])
           co == cached_offset[s]
           so == sync_offset[s]
<1>0. /\ state[s] = "WAITING_PSYNC_REPLY" /\ InLoop(s) /\ m # <<>> /\ Receive(s)
      /\ Head(m).t \in {"FULLRESYNC", "CONTINUE"}
      /\ UNCHANGED <<dataVars, snapshot, loading, replay_end, ends, request>>
  BY DEF PsyncReply, Receives, replayVars
<1>1. /\ LinkShape /\ SlaveShape /\ Ends(s) /\ Reads(s) /\ Writes(s) /\ Logged(s) /\ Stored(s)
      /\ history \in Seq(Commands) /\ n \in Nat /\ so \in Nat /\ Len(history) \in Nat
      /\ loading[s] = "no" /\ replay_end[s] = 0
  BY <1>0, Known, HandshakeFacts DEF RInv, Shape
<1>2. /\ stream' \in [Slaves -> Seq(Message)] /\ stream'[s] = Tail(m)
      /\ \A t \in Slaves \ {s} : stream'[t] = stream[t]
      /\ Tail(m) \in Seq(Message) /\ Len(Tail(m)) = Len(m) - 1
      /\ Len(m) \in Nat \ {0} /\ Head(m) = m[1]
      /\ "slave" \in ends[s] /\ request[s] = <<>> /\ ~Silence(m)
      /\ "master" \in ends[s] =>
           /\ ends[s] = {"master", "slave"} /\ sync_state[s] \in SyncStates \ {"absent", "NULL"}
           /\ sync_state[s] # "WAITING_SNAPSHOT"
           /\ \A i \in 1..Len(Tail(m)) : Tail(m)[i] # EOF
  BY <1>0, ReadingFacts
<1>3. LinkShape'
  BY <1>0, <1>1, <1>2 DEF LinkShape
<1>4. Answer(m, n, history, store)
  BY <1>0, <1>1 DEF Reads, Incoming
<1>5. ASSUME NEW o, o \in Nat, NEW st, st \in {"SYNCED", "WAITING_SNAPSHOT"},
             Enter(s, st), cached_offset' = [cached_offset EXCEPT ![s] = o],
             st = "WAITING_SNAPSHOT" => o <= Len(history),
             Incoming(st, Tail(m), n, o, history, store),
             Open(ends[s], sync_state[s], so, Tail(m), file_sending[s], st, n, o, history, store)
      PROVE  RInv'
  <2>1. /\ state' = [state EXCEPT ![s] = st] /\ state'[s] = st /\ cached_offset'[s] = o
    BY <1>1, <1>5 DEF Enter, SlaveShape
  <2>2. SlaveShape'
    BY <1>0, <1>1, <1>5, <2>1 DEF SlaveShape, SlaveStates, dataVars
  <2>3. OthersStill(s)
    BY <1>0, <1>1, <1>2, <1>5, <2>1 DEF OthersStill, SameSlave, SlaveShape, dataVars
  <2>4. Ends(s)' /\ Asked(s)'
    BY <1>0, <1>1, <1>2, <1>5, <2>1, MasterStill DEF Ends, Asked
  <2>5. Reads(s)' /\ Writes(s)'
    BY <1>0, <1>2, <1>5, <2>1, MasterStill DEF Reads, Writes, dataVars
  <2>6. Logged(s)'
    BY <1>0, <1>1, <1>5, <2>1, MasterStill DEF Logged, dataVars
  <2>7. Stored(s)'
    BY <1>0, <1>1, <2>1, MasterStill DEF Stored, dataVars
  <2> QED BY <1>3, <2>2, <2>3, <2>4, <2>5, <2>6, <2>7, SlaveStep DEF Local
<1>6. CASE /\ Head(m).t = "FULLRESYNC"
           /\ cached_offset' = [cached_offset EXCEPT ![s] = Head(m).off]
           /\ Enter(s, "WAITING_SNAPSHOT")
  <2>1. m[1] # Continue
    BY <1>2, <1>6, Kinds
  <2>2. PICK o \in 0..Len(history) : m[1] = FullResync(o) /\ Dump(Tail(m), o, history, store)
    BY <1>2, <1>4, <2>1 DEF Answer
  <2>3. Head(m).off = o /\ m[1].off = o /\ o \in Nat /\ o <= Len(history)
    BY <1>1, <1>2, <2>2, Kinds
  <2>4. Incoming("WAITING_SNAPSHOT", Tail(m), n, o, history, store)
    BY <2>2 DEF Incoming, Handshake
  <2>5. Open(ends[s], sync_state[s], so, Tail(m), file_sending[s], "WAITING_SNAPSHOT", n, o,
             history, store)
    <3>1. SUFFICES ASSUME ends[s] = {"master", "slave"}
                   PROVE  Open(ends[s], sync_state[s], so, Tail(m), file_sending[s],
                               "WAITING_SNAPSHOT", n, o, history, store)
      BY DEF Open
    <3>2. /\ sync_state[s] \in {"SYNCING_SNAPSHOT", "SYNCED"}
          /\ \A i \in 1..Len(Tail(m)) : Tail(m)[i] # EOF
      BY <1>2, <3>1 DEF SyncStates
    <3>3. CASE sync_state[s] = "SYNCING_SNAPSHOT"
      <4>1. /\ Covers(file_sending[s], so, history, store) /\ file_sending[s] # None
            /\ Len(m) = 1 /\ m[1] = FullResync(so)
        BY <1>0, <1>1, <3>1, <3>3 DEF Writes, Open
      <4>2. o = so
        <5>1. FullResync(so).off = so
          BY Kinds
        <5> QED BY <2>3, <4>1, <5>1, Zenon
      <4>3. Len(Tail(m)) = 0
        BY <1>2, <4>1
      <4>4. Tail(m) = <<>>
        BY <1>2, <4>3, EmptySeq
      <4> QED BY <3>2, <3>3, <4>1, <4>2, <4>4 DEF Open
    <3>4. CASE sync_state[s] = "SYNCED"
      <4>1. Len(m) > 1 /\ so = m[1].off + Len(m) - 2
        BY <1>0, <1>1, <2>1, <3>1, <3>4 DEF Writes, Open, Position
      <4>2. so = o + Len(m) - 2
        BY <2>3, <4>1, Zenon
      <4>3. so = o + Len(Tail(m)) - 1 /\ Len(Tail(m)) # 0
        BY <1>1, <1>2, <2>3, <4>1, <4>2
      <4>4. Tail(m) # <<>>
        BY <4>3, EmptySeq
      <4> QED BY <3>2, <3>4, <4>3, <4>4 DEF Open, Position
    <3> QED BY <3>2, <3>3, <3>4
  <2>6. cached_offset' = [cached_offset EXCEPT ![s] = o]
    BY <1>6, <2>3
  <2> QED BY <1>5, <1>6, <2>3, <2>4, <2>5, <2>6
<1>7. CASE /\ Head(m).t = "CONTINUE" /\ Enter(s, "SYNCED") /\ cached_offset' = cached_offset
  <2>1. \A o : m[1] # FullResync(o)
    BY <1>2, <1>7, Kinds
  <2>2. m[1] = Continue /\ Flow(Tail(m), n, history)
    BY <1>2, <1>4, <2>1 DEF Answer
  <2>3. Incoming("SYNCED", Tail(m), n, co, history, store)
    BY <2>2 DEF Incoming, Handshake
  <2>4. Open(ends[s], sync_state[s], so, Tail(m), file_sending[s], "SYNCED", n, co, history, store)
    <3>1. SUFFICES ASSUME ends[s] = {"master", "slave"}
                   PROVE  Open(ends[s], sync_state[s], so, Tail(m), file_sending[s],
                               "SYNCED", n, co, history, store)
      BY DEF Open
    <3>2. /\ sync_state[s] \in {"SYNCING_SNAPSHOT", "SYNCED"}
          /\ \A i \in 1..Len(Tail(m)) : Tail(m)[i] # EOF
      BY <1>2, <3>1 DEF SyncStates
    <3>3. sync_state[s] # "SYNCING_SNAPSHOT"
      BY <1>0, <1>1, <2>1, <3>1 DEF Writes, Open
    <3>4. Position("WAITING_PSYNC_REPLY", m, n, co, so)
      BY <1>0, <1>1, <3>1, <3>2, <3>3 DEF Writes, Open
    <3>5. so = n + Len(m) - 1
      BY <2>1, <3>4 DEF Position
    <3>6. so = n + Len(Tail(m))
      BY <1>1, <1>2, <3>5
    <3> QED BY <3>2, <3>3, <3>6 DEF Open, Position
  <2>5. co \in Nat /\ cached_offset' = [cached_offset EXCEPT ![s] = co]
    BY <1>1, <1>7 DEF SlaveShape
  <2> QED BY <1>5, <1>7, <2>3, <2>4, <2>5
<1> QED BY <1>6, <1>7 DEF PsyncReply, Receives

\* The whole snapshot has been received: it holds what its offset claims, and
\* the log is reset to that offset.
LEMMA LoadSnapshotStep ==
  ASSUME RInv, NEW s \in Slaves, LoadSnapshot(s, SubSeq(history, 1, cached_offset[s])),
         UNCHANGED masterVars
  PROVE  RInv'
<1> DEFINE m == stream[s]
           co == cached_offset[s]
           so == sync_offset[s]
           w == SubSeq(history, 1, co)
           d == Head(m).db
<1>0. /\ state[s] = "WAITING_SNAPSHOT" /\ InLoop(s) /\ m # <<>> /\ Head(m).t = "SNAPSHOT"
      /\ Receive(s) /\ Enter(s, "LOADING_SNAPSHOT")
      /\ server_key' = [server_key EXCEPT ![s] = OtherKey] /\ wal' = [wal EXCEPT ![s] = w]
      /\ wal_start' = [wal_start EXCEPT ![s] = co] /\ db' = [db EXCEPT ![s] = <<>>]
      /\ snapshot' = [snapshot EXCEPT ![s] = d] /\ loading' = [loading EXCEPT ![s] = "running"]
      /\ stale' = [stale EXCEPT ![s] = FALSE]
      /\ UNCHANGED <<data_offset, cached_offset, replay_end, ends, request>>
  BY DEF LoadSnapshot, Receives, replayVars
<1>1. /\ LinkShape /\ SlaveShape /\ Ends(s) /\ Reads(s) /\ Writes(s) /\ Logged(s)
      /\ history \in Seq(Commands) /\ so \in Nat /\ co \in Nat /\ Len(history) \in Nat
      /\ replay_end[s] = 0
  BY <1>0, Known, HandshakeFacts DEF RInv, Shape
<1>2. /\ stream' \in [Slaves -> Seq(Message)] /\ stream'[s] = Tail(m)
      /\ \A t \in Slaves \ {s} : stream'[t] = stream[t]
      /\ Tail(m) \in Seq(Message) /\ Len(Tail(m)) = Len(m) - 1
      /\ Len(m) \in Nat \ {0} /\ Head(m) = m[1]
      /\ "slave" \in ends[s] /\ request[s] = <<>> /\ ~Silence(m)
      /\ "master" \in ends[s] =>
           /\ ends[s] = {"master", "slave"} /\ sync_state[s] \in SyncStates \ {"absent", "NULL"}
           /\ sync_state[s] # "WAITING_SNAPSHOT"
           /\ \A i \in 1..Len(Tail(m)) : Tail(m)[i] # EOF
  BY <1>0, ReadingFacts
<1>3. LinkShape'
  BY <1>0, <1>1, <1>2 DEF LinkShape
<1>4. Dump(m, co, history, store)
  BY <1>0, <1>1 DEF Reads, Incoming
<1>5. Flow(Tail(m), co, history) /\ d \in Seq(Commands) /\ Covers(d, co, history, store)
  <2>1. PICK z \in Seq(Commands) : m[1] = Snapshot(z) /\ Covers(z, co, history, store)
    BY <1>2, <1>4 DEF Dump
  <2>2. d = z
    <3>1. Snapshot(z).db = z
      BY Kinds
    <3> QED BY <1>2, <2>1, <3>1, Zenon
  <2> QED BY <1>2, <1>4, <2>1, <2>2 DEF Dump
<1>6. w \in Seq(Commands) /\ Len(w) = co /\ Prefix(w, history) /\ co <= Len(history)
  <2>1. co \in 0..Len(history)
    BY <1>5 DEF Covers
  <2> QED BY <1>1, <2>1, PrefixFacts
<1> HIDE DEF w, d
<1>7. /\ state' = [state EXCEPT ![s] = "LOADING_SNAPSHOT"] /\ state'[s] = "LOADING_SNAPSHOT"
      /\ server_key'[s] = OtherKey /\ wal'[s] = w /\ wal_start'[s] = co /\ snapshot'[s] = d
      /\ loading'[s] = "running" /\ cached_offset'[s] = co /\ replay_end'[s] = 0
  BY <1>0, <1>1 DEF Enter, SlaveShape
<1>8. SlaveShape'
  BY <1>0, <1>1, <1>5, <1>6, <1>7 DEF SlaveShape, SlaveStates
<1>9. OthersStill(s)
  BY <1>0, <1>1, <1>2, <1>7 DEF OthersStill, SameSlave, SlaveShape
<1>10. Ends(s)' /\ Asked(s)'
  BY <1>0, <1>1, <1>2, <1>7, MasterStill DEF Ends, Asked
<1>11. Reads(s)'
  BY <1>2, <1>5, <1>6, <1>7, MasterStill DEF Reads, Incoming, Handshake
<1>12. Writes(s)'
  <2>1. Open(ends[s], sync_state[s], so, Tail(m), file_sending[s], "LOADING_SNAPSHOT", co, co,
             history, store)
    <3>1. SUFFICES ASSUME ends[s] = {"master", "slave"}
                   PROVE  Open(ends[s], sync_state[s], so, Tail(m), file_sending[s],
                               "LOADING_SNAPSHOT", co, co, history, store)
      BY DEF Open
    <3>2. /\ sync_state[s] \in {"SYNCING_SNAPSHOT", "SYNCED"}
          /\ \A i \in 1..Len(Tail(m)) : Tail(m)[i] # EOF
      BY <1>2, <3>1 DEF SyncStates
    <3>3. sync_state[s] # "SYNCING_SNAPSHOT"
      BY <1>0, <1>1, <3>1 DEF Writes, Open
    <3>4. Position("WAITING_SNAPSHOT", m, Len(wal[s]), co, so)
      BY <1>0, <1>1, <3>1, <3>2, <3>3 DEF Writes, Open
    <3>5. so = co + Len(m) - 1
      BY <3>4 DEF Position
    <3>6. so = co + Len(Tail(m))
      BY <1>1, <1>2, <3>5
    <3> QED BY <3>2, <3>3, <3>6 DEF Open, Position
  <2> QED BY <1>0, <1>2, <1>6, <1>7, <2>1, MasterStill DEF Writes
<1>13. Logged(s)'
  BY <1>1, <1>6, <1>7, MasterStill DEF Logged
<1>14. Stored(s)'
  BY <1>5, <1>7, MasterStill DEF Stored
<1> QED BY <1>3, <1>8, <1>9, <1>10, <1>11, <1>12, <1>13, <1>14, SlaveStep DEF Local

LEMMA SetServerKeyStep ==
  ASSUME RInv, NEW s \in Slaves, SetServerKey(s), UNCHANGED masterVars
  PROVE  RInv'
<1>0. /\ loading[s] = "running" /\ state[s] = "LOADING_SNAPSHOT"
      /\ db' = [db EXCEPT ![s] = snapshot[s]]
      /\ server_key' = [server_key EXCEPT ![s] = MasterKey]
      /\ loading' = [loading EXCEPT ![s] = "keyed"]
      /\ snapshot' = [snapshot EXCEPT ![s] = <<>>]
      /\ UNCHANGED <<data_offset, wal, wal_start, stale, state, cached_offset, replay_end, linkVars>>
  BY DEF SetServerKey, replayVars
<1>1. /\ LinkShape /\ SlaveShape /\ Ends(s) /\ Asked(s) /\ Reads(s) /\ Writes(s) /\ Logged(s)
      /\ Stored(s) /\ snapshot[s] \in Seq(Commands)
  BY Known DEF RInv, Shape
<1>2. UNCHANGED <<ends, request, stream>> /\ LinkShape'
  BY <1>0, <1>1 DEF LinkShape, linkVars, connVars
<1>3. SlaveShape' /\ db'[s] = snapshot[s] /\ loading'[s] = "keyed"
  BY <1>0, <1>1 DEF SlaveShape
<1>4. OthersStill(s)
  BY <1>0, <1>1, <1>2 DEF OthersStill, SameSlave, SlaveShape
<1>5. request[s] = <<>>
  BY <1>0, <1>1 DEF Ends, Asked
<1>6. Ends(s)' /\ Asked(s)' /\ Reads(s)' /\ Writes(s)'
  BY <1>0, <1>1, <1>2, <1>5, MasterStill DEF Ends, Asked, Reads, Writes
<1>7. Logged(s)'
  BY <1>0, <1>1, <1>3, MasterStill DEF Logged
<1>8. Stored(s)'
  BY <1>0, <1>1, <1>3, MasterStill DEF Stored
<1> QED BY <1>2, <1>3, <1>4, <1>6, <1>7, <1>8, SlaveStep DEF Local

LEMMA ResetDataOffsetStep ==
  ASSUME RInv, NEW s \in Slaves, ResetDataOffset(s), UNCHANGED masterVars
  PROVE  RInv'
<1> DEFINE co == cached_offset[s]
<1>0. /\ loading[s] = "keyed" /\ data_offset' = [data_offset EXCEPT ![s] = co]
      /\ loading' = [loading EXCEPT ![s] = "no"] /\ Enter(s, "SYNCED")
      /\ ReplayWAL(s, "SYNCED", wal[s], wal_start[s], wal_cache_start[s], co)
      /\ UNCHANGED <<server_key, wal, wal_start, db, stale, cached_offset, snapshot, linkVars>>
  BY DEF ResetDataOffset
<1>1. /\ LinkShape /\ SlaveShape /\ Ends(s) /\ Asked(s) /\ Reads(s) /\ Writes(s) /\ Logged(s)
      /\ Stored(s) /\ co \in Nat /\ Len(wal[s]) \in Nat /\ ends[s] \in SUBSET {"master", "slave"}
      /\ sync_state[s] \in SyncStates
  BY Known DEF RInv, Shape
<1>2. /\ state[s] = "LOADING_SNAPSHOT" /\ replay_end[s] = 0 /\ co <= Len(wal[s])
      /\ Covers(db[s], co, history, store)
  BY <1>0, <1>1 DEF Logged, Stored
<1>3. PICK e \in Nat : /\ replay_end' = [replay_end EXCEPT ![s] = e]
                       /\ e # 0 => e = Len(wal[s]) /\ co # Len(wal[s])
  BY <1>0, <1>1, <1>2, ReplayFacts
<1>4. UNCHANGED <<ends, request, stream>> /\ LinkShape'
  BY <1>0, <1>1 DEF LinkShape, linkVars, connVars
<1>5. /\ state' = [state EXCEPT ![s] = "SYNCED"] /\ state'[s] = "SYNCED" /\ data_offset'[s] = co
      /\ loading'[s] = "no" /\ replay_end'[s] = e
  BY <1>0, <1>1, <1>3 DEF Enter, SlaveShape
<1>6. SlaveShape'
  BY <1>0, <1>1, <1>3, <1>5 DEF SlaveShape, SlaveStates
<1>7. OthersStill(s)
  BY <1>0, <1>1, <1>3, <1>4, <1>5 DEF OthersStill, SameSlave, SlaveShape
<1>8. request[s] = <<>>
  BY <1>1, <1>2 DEF Ends, Asked
<1>9. Ends(s)' /\ Asked(s)'
  BY <1>1, <1>2, <1>4, <1>5, <1>8, MasterStill DEF Ends, Asked
<1>10. Reads(s)'
  BY <1>0, <1>1, <1>2, <1>4, <1>5, MasterStill DEF Reads, Incoming, Handshake
<1>11. Writes(s)'
  BY <1>0, <1>1, <1>2, <1>4, <1>5, MasterStill DEF Writes, Open, Position, Handshake
<1>12. Logged(s)'
  BY <1>0, <1>1, <1>5, MasterStill DEF Logged
<1>13. Stored(s)'
  BY <1>0, <1>1, <1>2, <1>3, <1>5, MasterStill DEF Stored
<1> QED BY <1>4, <1>6, <1>7, <1>9, <1>10, <1>11, <1>12, <1>13, SlaveStep DEF Local

\* A command received is the next one of the master's log; it is logged, and
\* applied at once or left for a replay.
LEMMA HandleRedisCommandStep ==
  ASSUME RInv, NEW s \in Slaves, HandleRedisCommand(s), UNCHANGED masterVars
  PROVE  RInv'
<1> DEFINE m == stream[s]
           n == Len(wal[s])
           co == cached_offset[s]
           so == sync_offset[s]
           off == data_offset[s]
           c == Head(m).cmd
           w == Append(wal[s], c)
           start == Retain(wal_start[s], n + 1, SlaveWalSize)
           now == state[s] = "SYNCED" /\ off = n
           given(x) == IF x = PING THEN db[s] ELSE Append(db[s], x)
<1>0. /\ state[s] \in {"LOADING_SNAPSHOT", "SYNCED"} /\ InLoop(s) /\ m # <<>> /\ Head(m).t = "CMD"
      /\ Receive(s) /\ wal' = [wal EXCEPT ![s] = w]
      /\ wal_start' = [wal_start EXCEPT ![s] = start]
      /\ UNCHANGED <<server_key, state, cached_offset, snapshot, loading, ends, request>>
  BY DEF HandleRedisCommand, Receives, Log
<1>1. /\ LinkShape /\ SlaveShape /\ Ends(s) /\ Reads(s) /\ Writes(s) /\ Logged(s) /\ Stored(s)
      /\ history \in Seq(Commands) /\ store \in Seq(Commands) /\ so \in Nat /\ co \in Nat
      /\ n \in Nat /\ off \in Nat /\ replay_end[s] \in Nat /\ wal_start[s] \in Nat
      /\ wal[s] \in Seq(Commands) /\ db[s] \in Seq(Commands) /\ Len(history) \in Nat
      /\ m \in Seq(Message) /\ loading[s] \in {"no", "running", "keyed"}
      /\ stale[s] \in BOOLEAN
  BY Known DEF RInv, Shape
<1>2. /\ stream' \in [Slaves -> Seq(Message)] /\ stream'[s] = Tail(m)
      /\ \A t \in Slaves \ {s} : stream'[t] = stream[t]
      /\ Tail(m) \in Seq(Message) /\ Len(Tail(m)) = Len(m) - 1
      /\ Len(m) \in Nat \ {0} /\ Head(m) = m[1]
      /\ "slave" \in ends[s] /\ request[s] = <<>> /\ ~Silence(m)
      /\ "master" \in ends[s] =>
           /\ ends[s] = {"master", "slave"} /\ sync_state[s] \in SyncStates \ {"absent", "NULL"}
           /\ sync_state[s] # "WAITING_SNAPSHOT"
           /\ \A i \in 1..Len(Tail(m)) : Tail(m)[i] # EOF
  BY <1>0, ReadingFacts
<1>3. LinkShape'
  BY <1>0, <1>1, <1>2 DEF LinkShape
<1>4. n < Len(history) /\ c = history[n + 1] /\ Flow(Tail(m), n + 1, history)
  <2>1. Flow(m, n, history) /\ Head(m) # EOF
    BY <1>0, <1>1, Kinds DEF Reads, Incoming
  <2>2. n + 1 <= Len(history) /\ Head(m) = Cmd(history[n + 1]) /\ Flow(Tail(m), n + 1, history)
    BY <1>0, <1>1, <2>1, FlowTail
  <2>3. Cmd(history[n + 1]).cmd = history[n + 1]
    BY Kinds
  <2>4. c = history[n + 1]
    BY <2>2, <2>3, Zenon
  <2> QED BY <1>1, <2>2, <2>4
<1>5. c \in Commands /\ c \in Elements(store) \cup {PING}
  <2>1. n + 1 \in DOMAIN history /\ history[n + 1] \in Commands
    BY <1>1, <1>4
  <2> QED BY <1>4, <2>1 DEF RInv, Executed, Elements
<1>6. w \in Seq(Commands) /\ Len(w) = n + 1 /\ Prefix(w, history)
  <2>1. w \in Seq(Commands) /\ Len(w) = n + 1
    BY <1>1, <1>5, AppendFacts
  <2>2. Prefix(w, history)
    BY <1>1, <1>4, PrefixFacts DEF Logged
  <2> QED BY <2>1, <2>2
<1>7. start \in Nat /\ start <= n + 1
  <2>1. wal_start[s] \in Nat /\ n \in Nat /\ wal_start[s] <= n
    BY <1>1 DEF Logged
  <2>2. SlaveWalSize \in Nat
    BY SlaveAssumption
  <2>3. n + 1 \in Nat /\ wal_start[s] <= n + 1
    <3> HIDE DEF n
    <3> QED BY <2>1
  <2>4. start \in 0..(n + 1)
    BY <2>1, <2>2, <2>3, RetainFacts
  <2> QED
    <3> HIDE DEF n, start
    <3> QED BY <2>1, <2>4
<1>8. off + 1 \in Nat /\ \A y \in Commands : given(y) \in Seq(Commands)
  BY <1>1, AppendFacts
<1>10. PICK z \in Seq(Commands), o \in Nat, f \in Nat, b \in BOOLEAN :
         /\ db' = [db EXCEPT ![s] = z] /\ data_offset' = [data_offset EXCEPT ![s] = o]
         /\ replay_end' = [replay_end EXCEPT ![s] = f] /\ stale' = [stale EXCEPT ![s] = b]
         /\ \/ now /\ o = off + 1 /\ f = replay_end[s] /\ (b \/ (z = given(c) /\ ~stale[s]))
            \/ /\ ~now /\ z = db[s] /\ o = off /\ b = stale[s]
               /\ f = replay_end[s] \/ (state[s] = "SYNCED" /\ f = n + 1 /\ off # n + 1)
  <2>1. CASE now
    <3>1. PICK y \in IF spoilt'[s] THEN Anything(s) ELSE {c} : Apply(s, y)
      BY <2>1 DEF HandleRedisCommand
    <3>2. stale' = [stale EXCEPT ![s] = stale[s] \/ spoilt'[s]] /\ replay_end' = replay_end
      BY <2>1 DEF HandleRedisCommand, replayVars
    <3>3. y \in Commands
      BY <1>5, <3>1, AnythingFacts
    <3>4. db' = [db EXCEPT ![s] = given(y)] /\ data_offset' = [data_offset EXCEPT ![s] = off + 1]
      BY <3>1 DEF Apply
    <3>5. replay_end' = [replay_end EXCEPT ![s] = replay_end[s]]
      BY <1>1, <3>2 DEF SlaveShape
    <3>6. (stale[s] \/ spoilt'[s]) \in BOOLEAN
      OBVIOUS
    <3>7. spoilt'[s] \/ y = c
      <4> HIDE DEF c
      <4> QED BY <3>1
    <3>8. ASSUME NEW b, b = (stale[s] \/ spoilt'[s])
          PROVE  /\ b \in BOOLEAN /\ stale' = [stale EXCEPT ![s] = b]
                 /\ b \/ (given(y) = given(c) /\ ~stale[s])
      <4>1. b \in BOOLEAN /\ stale' = [stale EXCEPT ![s] = b]
        BY <3>2, <3>6, <3>8
      <4>2. CASE y = c
        <5>1. given(y) = given(c)
          BY <4>2
        <5> HIDE DEF given
        <5>2. b \/ ~stale[s]
          BY <3>8, Zenon
        <5> QED BY <4>1, <5>1, <5>2, Zenon
      <4>3. CASE spoilt'[s]
        BY <3>8, <4>1, <4>3, Zenon
      <4> QED BY <3>7, <4>2, <4>3
    <3>9. PICK b : b = (stale[s] \/ spoilt'[s])
      OBVIOUS
    <3>10. /\ b \in BOOLEAN /\ stale' = [stale EXCEPT ![s] = b]
           /\ b \/ (given(y) = given(c) /\ ~stale[s])
      BY <3>8, <3>9
    <3>11. given(y) \in Seq(Commands)
      BY <1>8, <3>3
    <3> HIDE DEF given, c
    <3> QED BY <1>1, <1>8, <2>1, <3>4, <3>5, <3>10, <3>11
  <2>2. CASE ~now
    <3>1. wal'[s] = w /\ wal_start'[s] = start
      BY <1>0, <1>1 DEF SlaveShape
    <3>2. /\ ReplayWAL(s, state[s], w, start, wal_cache_start'[s], off)
          /\ db' = db /\ data_offset' = data_offset /\ stale' = stale
      BY <2>2, <3>1 DEF HandleRedisCommand
    <3>3. /\ db' = [db EXCEPT ![s] = db[s]] /\ data_offset' = [data_offset EXCEPT ![s] = off]
          /\ stale' = [stale EXCEPT ![s] = stale[s]]
      BY <1>1, <3>2 DEF SlaveShape
    <3>4. PICK f \in Nat :
            /\ replay_end' = [replay_end EXCEPT ![s] = f]
            /\ f = replay_end[s] \/ (state[s] = "SYNCED" /\ f = n + 1 /\ off # n + 1)
      <4> HIDE DEF w, start
      <4> QED BY <1>1, <1>6, <3>2, ReplayFacts
    <3> QED BY <1>1, <2>2, <3>3, <3>4
  <2> QED BY <2>1, <2>2
<1> HIDE DEF w, start, c
<1>11. /\ wal'[s] = w /\ wal_start'[s] = start /\ db'[s] = z /\ data_offset'[s] = o
       /\ replay_end'[s] = f /\ stale'[s] = b
  BY <1>0, <1>1, <1>10 DEF SlaveShape
<1>12. SlaveShape'
  BY <1>0, <1>1, <1>6, <1>7, <1>10 DEF SlaveShape
<1>13. OthersStill(s)
  BY <1>0, <1>1, <1>2, <1>10 DEF OthersStill, SameSlave, SlaveShape
<1>14. Ends(s)' /\ Asked(s)'
  BY <1>0, <1>1, <1>2, MasterStill DEF Ends, Asked
<1>15. Reads(s)'
  BY <1>0, <1>2, <1>4, <1>6, <1>11, MasterStill DEF Reads, Incoming, Handshake
<1>16. Writes(s)'
  <2>1. Open(ends[s], sync_state[s], so, Tail(m), file_sending[s], state[s], n + 1, co,
             history, store)
    <3>1. SUFFICES ASSUME ends[s] = {"master", "slave"}
                   PROVE  Open(ends[s], sync_state[s], so, Tail(m), file_sending[s],
                               state[s], n + 1, co, history, store)
      BY DEF Open
    <3>2. /\ sync_state[s] \in {"SYNCING_SNAPSHOT", "SYNCED"}
          /\ \A i \in 1..Len(Tail(m)) : Tail(m)[i] # EOF
      BY <1>2, <3>1 DEF SyncStates
    <3>3. sync_state[s] # "SYNCING_SNAPSHOT"
      BY <1>0, <1>1, <3>1 DEF Writes, Open
    <3>4. Position(state[s], m, n, co, so)
      BY <1>0, <1>1, <3>1, <3>2, <3>3 DEF Writes, Open
    <3>5. so = n + Len(m)
      BY <1>0, <3>4 DEF Position
    <3>6. so = (n + 1) + Len(Tail(m))
      <4> DEFINE k == Len(m)
                 r == Len(Tail(m))
      <4>1. k \in Int /\ r = k - 1 /\ n \in Int /\ so = n + k
        BY <1>1, <1>2, <3>5
      <4>2. so = (n + 1) + r
        <5> HIDE DEF k, r, n, so
        <5> QED BY <4>1
      <4> QED BY <4>2
    <3> QED BY <1>0, <3>2, <3>3, <3>6 DEF Open, Position
  <2> QED BY <1>0, <1>2, <1>6, <1>11, <2>1, MasterStill DEF Writes
<1>17. Logged(s)'
  <2>1. f # 0 => state[s] \in {"SYNCED", "INVALID"}
    BY <1>1, <1>10 DEF Logged
  <2> QED BY <1>0, <1>1, <1>6, <1>7, <1>11, <2>1, MasterStill, SMTT(30) DEF Logged
<1>18. Stored(s)'
  <2>1. loading[s] # "keyed"
    BY <1>0 DEF InLoop
  <2>2. ASSUME server_key[s] = MasterKey, loading[s] = "no", ~b
        PROVE  /\ o <= n + 1 /\ Covers(z, o, history, store)
               /\ f # 0 /\ state[s] = "SYNCED" => o < f /\ f <= n + 1
    <3>0. ~stale[s]
      BY <1>10, <2>2
    <3>1. /\ off <= n /\ Covers(db[s], off, history, store)
          /\ replay_end[s] # 0 /\ state[s] = "SYNCED" => off < replay_end[s] /\ replay_end[s] <= n
      BY <1>1, <2>2, <3>0 DEF Stored
    <3>2. CASE now /\ z = given(c) /\ o = off + 1 /\ f = replay_end[s]
      <4>1. Covers(given(c), off + 1, history, store)
        BY <1>1, <1>4, <1>5, <3>1, <3>2, CoversApply
      <4> QED BY <1>1, <3>1, <3>2, <4>1
    <3>3. CASE /\ ~now /\ z = db[s] /\ o = off
               /\ f = replay_end[s] \/ (state[s] = "SYNCED" /\ f = n + 1 /\ off # n + 1)
      BY <1>1, <3>1, <3>3
    <3> QED BY <1>10, <2>2, <3>2, <3>3
  <2> QED BY <1>0, <1>1, <1>6, <1>11, <2>1, <2>2, MasterStill DEF Stored
<1> QED BY <1>3, <1>12, <1>13, <1>14, <1>15, <1>16, <1>17, <1>18, SlaveStep DEF Local
-----------------------------------------------------------------------------
(***************************************************************************)
(* The theorems.                                                           *)
(***************************************************************************)

\* A log of the first k commands.
LEMMA FirstCommands ==
  ASSUME NEW k \in 0..FirstOffset
  PROVE  /\ [i \in 1..k |-> i] \in Seq(Commands) /\ Len([i \in 1..k |-> i]) = k
         /\ \A i \in 1..k : [j \in 1..k |-> j][i] = i
<1>1. k \in Nat /\ \A i \in 1..k : i \in Commands
  BY MasterAssumption DEF Commands
<1>2. [i \in 1..k |-> i] \in [1..k -> Commands]
  BY <1>1
<1> QED BY <1>1, <1>2

LEMMA InitRInv ==
  ASSUME Init
  PROVE  RInv
<1> DEFINE first == [i \in 1..FirstOffset |-> i]
<1>1. FirstOffset \in Nat /\ FirstOffset \in 0..FirstOffset /\ PING \in Commands
  BY MasterAssumption DEF Commands, PING
<1>2. /\ first \in Seq(Commands) /\ Len(first) = FirstOffset
      /\ \A i \in 1..FirstOffset : first[i] = i
  BY <1>1, FirstCommands
<1> HIDE DEF first
<1>3. PICK n \in [Slaves -> 0..FirstOffset] : JoinedWith = [s \in Slaves |-> [i \in 1..n[s] |-> i]]
  BY JoinedAssumption
<1>4. ASSUME NEW s \in Slaves
      PROVE  /\ JoinedWith[s] \in Seq(Commands) /\ Len(JoinedWith[s]) = n[s] /\ n[s] \in Nat
             /\ n[s] <= FirstOffset /\ \A i \in 1..n[s] : JoinedWith[s][i] = i
  <2>1. n[s] \in 0..FirstOffset /\ JoinedWith[s] = [i \in 1..n[s] |-> i]
    BY <1>3
  <2> QED BY <1>1, <2>1, FirstCommands
<1>5. JoinedWith \in [Slaves -> Seq(Commands)]
  BY <1>3, <1>4
<1>6. /\ ends = [s \in Slaves |-> {}] /\ request = [s \in Slaves |-> <<>>]
      /\ stream = [s \in Slaves |-> <<>>]
  BY DEF Init, LinkInit
<1>7. /\ history = first /\ store = first /\ log_start = FirstOffset
      /\ posting = [w \in Workers |-> PING] /\ queue = <<>>
      /\ snapshot_saving = -1 /\ backup = None
      /\ sync_state = [s \in Slaves |-> "absent"] /\ sync_offset = [s \in Slaves |-> 0]
      /\ writing = [s \in Slaves |-> "off"] /\ file_sending = [s \in Slaves |-> None]
  BY DEF Init, MasterInit, first
<1>8. /\ state = [s \in Slaves |-> "INVALID"] /\ wal = JoinedWith
      /\ wal_start = [s \in Slaves |-> Len(JoinedWith[s])]
      /\ server_key = [s \in Slaves |-> IF JoinedWith[s] = <<>> THEN OtherKey ELSE MasterKey]
      /\ data_offset = [s \in Slaves |-> Len(JoinedWith[s])] /\ db = JoinedWith
      /\ cached_offset = [s \in Slaves |-> 0] /\ snapshot = [s \in Slaves |-> <<>>]
      /\ loading = [s \in Slaves |-> "no"] /\ replay_end = [s \in Slaves |-> 0]
      /\ stale = [s \in Slaves |-> FALSE]
  BY DEF Init, SlaveInit
<1>9. Shape
  <2>1. LinkShape
    BY <1>6 DEF LinkShape
  <2>2. MasterShape
    BY <1>1, <1>2, <1>7 DEF MasterShape, SyncStates
  <2>3. SlaveShape
    <3>1. \A s \in Slaves : Len(JoinedWith[s]) \in Nat
      BY <1>4
    <3> QED BY <1>5, <1>8, <3>1 DEF SlaveShape, SlaveStates
  <2> QED BY <2>1, <2>2, <2>3 DEF Shape
<1>10. Executed
  BY <1>7 DEF Executed, Elements
<1>11. Saving
  BY <1>7 DEF Saving
<1>12. ASSUME NEW s \in Slaves PROVE Local(s)
  <2>1. Ends(s) /\ Asked(s)
    BY <1>1, <1>2, <1>6, <1>7, <1>8 DEF Ends, Asked
  <2>2. Reads(s)
    BY <1>8 DEF Reads, Incoming, Handshake
  <2>3. Writes(s)
    <3>1. ends[s] # {"master", "slave"}
      BY <1>6
    <3> QED BY <3>1 DEF Writes, Open
  <2>4. Logged(s)
    <3>1. Prefix(JoinedWith[s], first)
      BY <1>1, <1>2, <1>4 DEF Prefix
    <3> QED BY <1>4, <1>7, <1>8, <3>1 DEF Logged
  <2>5. Stored(s)
    <3>1. \A j \in 1..n[s] : first[j] \in Elements(JoinedWith[s])
      BY <1>1, <1>2, <1>4 DEF Elements
    <3>2. Elements(JoinedWith[s]) \subseteq Elements(first)
      BY <1>1, <1>2, <1>4 DEF Elements
    <3>3. Covers(JoinedWith[s], n[s], first, first)
      BY <1>1, <1>2, <1>4, <3>1, <3>2 DEF Covers
    <3> QED BY <1>4, <1>7, <1>8, <3>3 DEF Stored
  <2> QED BY <2>1, <2>2, <2>3, <2>4, <2>5 DEF Local
<1> QED BY <1>9, <1>10, <1>11, <1>12 DEF RInv

LEMMA NextRInv ==
  ASSUME RInv, [Next]_vars
  PROVE  RInv'
<1>1. CASE MasterNext /\ UNCHANGED slaveVars
  BY <1>1, CallStep, WriteWALStep, WriteWALCallbackStep, OnHeartbeatStep, ClearNilSlaveStep,
     BackupStep, SaveDoneStep, SaveFailedStep, AddSlaveStep, SnapshotSentStep,
     ChannelWritableStep, ChannelClosedStep, ConnectionBreaksStep, MasterRestartStep
     DEF MasterNext
<1>2. ASSUME NEW s \in Slaves, SlaveNext(s), UNCHANGED masterVars
      PROVE  RInv'
  BY <1>2, RoutineStep, ReplayStepStep, ConnectMasterStep, SlaveConnectedStep, ReplyOKStep,
     DisconnectStep, PsyncReplyStep, LoadSnapshotStep, SetServerKeyStep, ResetDataOffsetStep,
     HandleRedisCommandStep, SlaveRestartStep
     DEF SlaveNext
<1>3. CASE UNCHANGED vars
  <2>1. UNCHANGED linkVars /\ UNCHANGED masterVars /\ UNCHANGED slaveVars
    BY <1>3 DEF vars
  <2>2. LinkShape' /\ \A s \in Slaves : SameLink(s)
    BY <2>1, LinksStill DEF RInv, masterVars
  <2>3. SlaveShape' /\ \A s \in Slaves : SameSlave(s)
    BY <2>1, SlavesStill DEF RInv
  <2>4. MasterShape' /\ Executed' /\ Saving' /\ Grows
    BY <2>1, MasterStill
  <2> QED BY <2>2, <2>3, <2>4, LinkFrame DEF RInv, Shape
<1> QED BY <1>1, <1>2, <1>3 DEF Next

\* RInv, which relates every stream to the log of the slave that reads it, to
\* the offset the master keeps for it and to the store, is an invariant.
THEOREM InvariantHolds == Spec => []RInv
  BY InitRInv, NextRInv, PTL DEF Spec

-----------------------------------------------------------------------------
(***************************************************************************)
(* What is sent in place of the log.  A replay passes other bytes only     *)
(* from behind the point where the process opened the log, or from a file  *)
(* that has gone round; both stay as they are when the log grows, and a    *)
(* slave is spoilt by what it was sent.                                    *)
(***************************************************************************)
MarkShape ==
  /\ log_cache_start \in Nat /\ log_opened \in FirstOffset..Len(history)
  /\ FirstOffset <= log_start
  /\ strays \in [Slaves -> SUBSET (1..Len(history))]
  /\ spoilt \in [Slaves -> BOOLEAN] /\ replay_cached \in [Slaves -> BOOLEAN]
  /\ wal_reset \in [Slaves -> Nat] /\ wal_cache_start \in [Slaves -> Nat]
  /\ wal_opened \in [Slaves -> Nat]

MInv ==
  /\ MarkShape
  /\ \A s \in Slaves : spoilt[s] \/ strays[s] # {} => MayStray

\* A log that has not gone round ends in its file as far from the beginning
\* as it is long.
LEMMA NotGoneRound ==
  ASSUME NEW k \in Nat, NEW n \in Nat \ {0}, k < n
  PROVE  k % n = k
  OBVIOUS

\* The places a replay from o strays from.
LEMMA StraysFacts ==
  ASSUME NEW h \in Seq(Commands), NEW o \in Nat, FirstOffset <= o, o < Len(h), log_opened \in Nat
  PROVE  /\ Strays(o, h) \subseteq 1..Len(h)
         /\ Strays(o, h) # {} => Len(h) - FirstOffset >= WalSize \/ log_opened > FirstOffset
<1> DEFINE n == Len(h)
           r == Reached(o, h)
<1>1. n \in Nat /\ FirstOffset \in Nat /\ WalSize \in Nat \ {0} /\ MAX_SEND_CACHE_SIZE \in Nat
  BY MasterAssumption
<1>2. r \in Nat /\ r <= n
  BY <1>1 DEF Reached, Smaller
<1> HIDE DEF r
<1>3. CASE FromCache(CacheSize, CacheStart(h), o)
  <2>1. Strays(o, h) = (o + 1)..Smaller(r, log_opened)
    BY <1>3 DEF Strays, r
  <2>2. Smaller(r, log_opened) <= n /\ Smaller(r, log_opened) <= log_opened
        /\ Smaller(r, log_opened) \in Nat
    BY <1>1, <1>2 DEF Smaller
  <2>3. ASSUME NEW p \in Strays(o, h) PROVE p \in 1..n /\ log_opened > FirstOffset
    BY <1>1, <2>1, <2>2
  <2> QED BY <2>3
<1>4. CASE ~FromCache(CacheSize, CacheStart(h), o)
  <2>1. Strays(o, h) = IF r = n \/ n - o <= FilePos(h) THEN {} ELSE (o + 1)..r
    BY <1>4 DEF Strays, r
  <2>2. Strays(o, h) \subseteq 1..n
    BY <1>1, <1>2, <2>1
  <2>3. ASSUME n - FirstOffset < WalSize PROVE Strays(o, h) = {}
    <3>1. n - FirstOffset \in Nat
      BY <1>1
    <3>2. FilePos(h) = n - FirstOffset
      BY <1>1, <2>3, <3>1, NotGoneRound DEF FilePos
    <3> QED BY <1>1, <2>1, <3>2
  <2> QED BY <1>1, <2>2, <2>3
<1> QED BY <1>3, <1>4

\* What Sync leaves: the slaves it feeds were not before the start of the log.
LEMMA SyncMarks ==
  ASSUME strays \in [Slaves -> SUBSET (1..Len(history))], log_opened \in Nat,
         NEW S, NEW st, NEW so \in [Slaves -> Nat], NEW wr, NEW out, NEW h \in Seq(Commands),
         NEW start \in Nat, Len(history) <= Len(h), FirstOffset <= start,
         history \in Seq(Commands), Sync(S, st, so, wr, out, h, start)
  PROVE  /\ strays' \in [Slaves -> SUBSET (1..Len(h))]
         /\ \A s \in Slaves : strays'[s] # {} =>
              \/ strays[s] # {}
              \/ Len(h) - FirstOffset >= WalSize \/ log_opened > FirstOffset
<1> DEFINE fed == {s \in S \ Outside(S, so, h, start) : so[s] < Len(h)}
           new == [s \in Slaves |-> IF s \in fed
                     THEN {o \in strays[s] : o <= so[s]} \cup Strays(so[s], h) ELSE strays[s]]
<1>1. strays' = new
  BY DEF Sync
<1>2. Len(h) \in Nat /\ Len(history) \in Nat /\ FirstOffset \in Nat
  BY MasterAssumption
<1>3. ASSUME NEW s \in Slaves
      PROVE  /\ strays'[s] \subseteq 1..Len(h)
             /\ strays'[s] # {} =>
                  \/ strays[s] # {}
                  \/ Len(h) - FirstOffset >= WalSize \/ log_opened > FirstOffset
  <2>1. strays[s] \subseteq 1..Len(h)
    BY <1>2
  <2>2. CASE s \in fed
    <3>1. so[s] \in Nat /\ so[s] < Len(h) /\ FirstOffset <= so[s]
      BY <1>2, <2>2 DEF Outside
    <3>2. strays'[s] = {o \in strays[s] : o <= so[s]} \cup Strays(so[s], h)
      BY <1>1, <2>2
    <3> HIDE DEF fed, new
    <3> QED BY <2>1, <3>1, <3>2, StraysFacts
  <2>3. CASE s \notin fed
    BY <1>1, <2>1, <2>3
  <2> QED BY <2>2, <2>3
<1>4. DOMAIN strays' = Slaves /\ strays' = [s \in Slaves |-> strays'[s]]
  BY <1>1
<1> QED BY <1>3, <1>4

\* Steps of the master that send nothing.
LEMMA MarksStill ==
  ASSUME MInv, UNCHANGED <<logVars, strays>>, UNCHANGED slaveVars
  PROVE  MInv'
  BY DEF MInv, MarkShape, MayStray, logVars, slaveVars, dataVars, statusVars, replayVars

\* Steps of the master that send what is logged already.
LEMMA SyncStill ==
  ASSUME RInv, MInv, UNCHANGED logVars, UNCHANGED slaveVars,
         NEW S, NEW st, NEW so \in [Slaves -> Nat], NEW wr, NEW out,
         Sync(S, st, so, wr, out, history, log_start)
  PROVE  MInv'
<1>1. /\ history \in Seq(Commands) /\ log_start \in Nat /\ Len(history) \in Nat
      /\ log_opened \in Nat /\ FirstOffset \in Nat
  BY MasterAssumption DEF RInv, Shape, MasterShape, MInv, MarkShape
<1>2. /\ strays' \in [Slaves -> SUBSET (1..Len(history))]
      /\ \A s \in Slaves : strays'[s] # {} => strays[s] # {} \/ MayStray
  <2>1. strays \in [Slaves -> SUBSET (1..Len(history))] /\ FirstOffset <= log_start
    BY DEF MInv, MarkShape
  <2>2. Len(history) <= Len(history)
    BY <1>1
  <2>3. /\ strays' \in [Slaves -> SUBSET (1..Len(history))]
        /\ \A s \in Slaves : strays'[s] # {} =>
             \/ strays[s] # {}
             \/ Len(history) - FirstOffset >= WalSize \/ log_opened > FirstOffset
    BY <1>1, <2>1, <2>2, SyncMarks
  <2> QED BY <2>3 DEF MayStray
<1>3. UNCHANGED <<history, log_start, log_cache_start, log_opened>>
      /\ UNCHANGED <<spoilt, replay_cached, wal_reset, wal_cache_start, wal_opened>>
  BY DEF logVars, slaveVars, dataVars, statusVars, replayVars
<1>4. MarkShape' /\ (MayStray' <=> MayStray)
  BY <1>2, <1>3 DEF MInv, MarkShape, MayStray
<1> QED BY <1>2, <1>3, <1>4 DEF MInv

LEMMA AppendMarks ==
  ASSUME RInv, MInv, NEW c \in Commands, AppendAndSync(c), UNCHANGED slaveVars
  PROVE  MInv'
<1> DEFINE n == Len(history)
           start == Retain(log_start, n + 1, WalSize)
<1>1. /\ history \in Seq(Commands) /\ log_start \in Nat /\ n \in Nat /\ log_start <= n
      /\ log_opened \in Nat /\ FirstOffset \in Nat /\ sync_offset \in [Slaves -> Nat]
      /\ WalSize \in Nat \ {0} /\ CacheSize \in Nat /\ log_cache_start \in Nat
      /\ FirstOffset <= log_start
  BY MasterAssumption DEF RInv, Shape, MasterShape, MInv, MarkShape
<1>2. history' = Append(history, c) /\ history' \in Seq(Commands) /\ Len(history') = n + 1
  BY <1>1, AppendFacts DEF AppendAndSync
<1>3. log_start' = start
  BY <1>2 DEF AppendAndSync
<1>4. start \in Nat /\ FirstOffset <= start
  BY <1>1 DEF Retain
<1>5. CacheStart(history') \in Nat
  <2>1. history' # history
    BY <1>1, <1>2
  <2>2. CacheStart(history') = Retain(log_cache_start, n + 1, CacheSize)
    BY <1>2, <2>1 DEF CacheStart
  <2> QED BY <1>1, <2>2 DEF Retain
<1>6. log_cache_start' = CacheStart(history') /\ log_opened' = log_opened
  BY DEF AppendAndSync
<1> HIDE DEF start
<1>7. /\ strays' \in [Slaves -> SUBSET (1..Len(history'))]
      /\ \A s \in Slaves : strays'[s] # {} =>
           \/ strays[s] # {}
           \/ Len(history') - FirstOffset >= WalSize \/ log_opened > FirstOffset
  <2>1. Sync(Lagging(sync_state, sync_offset, log_start'), sync_state, sync_offset, writing,
             Silent, history', log_start')
    BY DEF AppendAndSync
  <2>2. Len(history) <= Len(history') /\ log_start' \in Nat /\ FirstOffset <= log_start'
    BY <1>1, <1>2, <1>3, <1>4
  <2> QED BY <1>1, <1>2, <2>1, <2>2, SyncMarks DEF MInv, MarkShape
<1>8. UNCHANGED <<spoilt, replay_cached, wal_reset, wal_cache_start, wal_opened>>
  BY DEF slaveVars, dataVars, statusVars, replayVars
<1>9. MarkShape'
  <2>1. log_opened' \in FirstOffset..Len(history')
    BY <1>1, <1>2, <1>6 DEF MInv, MarkShape
  <2> QED BY <1>3, <1>4, <1>5, <1>6, <1>7, <1>8, <2>1 DEF MInv, MarkShape
<1>10. MayStray => MayStray'
  BY <1>1, <1>2, <1>6 DEF MayStray
<1>11. \A s \in Slaves : strays'[s] # {} => strays[s] # {} \/ MayStray'
  BY <1>6, <1>7 DEF MayStray
<1> QED BY <1>8, <1>9, <1>10, <1>11 DEF MInv

LEMMA MasterMarks ==
  ASSUME RInv, MInv, MasterNext, UNCHANGED slaveVars
  PROVE  MInv'
<1>1. /\ history \in Seq(Commands) /\ sync_offset \in [Slaves -> Nat] /\ queue \in Seq(Commands)
      /\ \A s \in Slaves : request[s] \in Seq(Request) /\ (request[s] # <<>> => Len(request[s]) = 1)
  BY Known DEF RInv, Shape, MasterShape, Local, Asked
<1>2. ASSUME \/ \E w \in Workers : Call(w) \/ WriteWAL(w)
             \/ ClearNilSlave \/ Backup \/ SaveDone \/ SaveFailed
             \/ \E s \in Slaves : ChannelClosed(s) \/ ConnectionBreaks(s)
      PROVE  MInv'
  <2>1. UNCHANGED <<logVars, strays>>
    BY <1>2 DEF Call, WriteWAL, ClearNilSlave, Backup, SaveDone, SaveFailed, ChannelClosed,
         ConnectionBreaks, Forget, slaveConnVars
  <2> QED BY <2>1, MarksStill
<1>3. CASE WriteWALCallback
  <2>1. queue # <<>> /\ AppendAndSync(Head(queue))
    BY <1>3 DEF WriteWALCallback
  <2>2. Head(queue) \in Commands
    BY <1>1, <2>1, HeadTailProperties
  <2> QED BY <2>1, <2>2, AppendMarks
<1>4. CASE OnHeartbeat
  <2>1. AppendAndSync(PING) /\ PING \in Commands
    BY <1>4, MasterAssumption DEF OnHeartbeat, Commands, PING
  <2> QED BY <2>1, AppendMarks
<1>5. ASSUME NEW s \in Slaves, AddSlave(s) PROVE MInv'
  <2> DEFINE r == request[s][1]
             so == [sync_offset EXCEPT ![s] = Len(r.wal)]
             wr == [writing EXCEPT ![s] = "off"]
             st == [sync_state EXCEPT ![s] = "SYNCED"]
  <2>1. UNCHANGED logVars
    BY <1>5 DEF AddSlave
  <2>2. CASE r.key = MasterKey /\ IsValidOffsetCksm(r)
    <3>1. Sync(Lagging(st, so, log_start), st, so, wr, [Silent EXCEPT ![s] = <<Continue>>],
               history, log_start)
      BY <1>5, <2>2 DEF AddSlave
    <3>2. r \in Request
      BY <1>1, <1>5 DEF AddSlave
    <3>3. Len(r.wal) \in Nat
      BY <3>2 DEF Request
    <3>4. so \in [Slaves -> Nat]
      BY <1>1, <3>3
    <3> HIDE DEF so, st, wr
    <3> QED BY <2>1, <3>1, <3>4, SyncStill
  <2>3. CASE ~(r.key = MasterKey /\ IsValidOffsetCksm(r))
    BY <1>5, <2>1, <2>3, MarksStill DEF AddSlave
  <2> QED BY <2>2, <2>3
<1>6. ASSUME NEW s \in Slaves, SnapshotSent(s) PROVE MInv'
  <2>1. /\ UNCHANGED logVars
        /\ Sync({s}, [sync_state EXCEPT ![s] = "SYNCED"], sync_offset, writing,
                [Silent EXCEPT ![s] = <<Snapshot(file_sending[s])>>], history, log_start)
    BY <1>6 DEF SnapshotSent
  <2> QED BY <1>1, <2>1, SyncStill
<1>7. ASSUME NEW s \in Slaves, ChannelWritable(s) PROVE MInv'
  <2>1. UNCHANGED logVars
    BY <1>7 DEF ChannelWritable
  <2>2. CASE UNCHANGED strays
    BY <2>1, <2>2, MarksStill
  <2>3. CASE Sync({s}, sync_state, sync_offset, writing, Silent, history, log_start)
    BY <1>1, <2>1, <2>3, SyncStill
  <2> QED BY <1>7, <2>2, <2>3 DEF ChannelWritable
<1>8. CASE MasterRestart
  <2>1. /\ UNCHANGED <<history, log_start, strays>> /\ log_cache_start' = log_start
        /\ log_opened' = Len(history)
    BY <1>8 DEF MasterRestart
  <2>2. UNCHANGED <<spoilt, replay_cached, wal_reset, wal_cache_start, wal_opened>>
    BY DEF slaveVars, dataVars, statusVars, replayVars
  <2>3. Len(history) \in Nat /\ FirstOffset \in Nat /\ log_start \in 0..Len(history)
    BY MasterAssumption DEF RInv, Shape, MasterShape
  <2>4. MarkShape' /\ (MayStray => MayStray')
    BY <2>1, <2>2, <2>3 DEF MInv, MarkShape, MayStray
  <2> QED BY <2>1, <2>2, <2>4 DEF MInv
<1> QED BY <1>2, <1>3, <1>4, <1>5, <1>6, <1>7, <1>8 DEF MasterNext

\* A slave is spoilt by what was sent to it, and by nothing else.
LEMMA SlaveMarks ==
  ASSUME RInv, MInv, NEW s \in Slaves, SlaveNext(s), UNCHANGED masterVars
  PROVE  MInv'
<1>1. /\ Len(wal[s]) \in Nat /\ cached_offset[s] \in Nat /\ wal_start[s] \in Nat
      /\ SlaveCacheSize \in Nat
  BY Known, SlaveAssumption DEF RInv, Shape, SlaveShape
<1>2. UNCHANGED <<history, log_start, log_cache_start, log_opened, strays>>
  BY DEF masterVars, logVars, slaveConnVars
<1>3. /\ spoilt \in [Slaves -> BOOLEAN] /\ replay_cached \in [Slaves -> BOOLEAN]
      /\ wal_reset \in [Slaves -> Nat] /\ wal_cache_start \in [Slaves -> Nat]
      /\ wal_opened \in [Slaves -> Nat]
  BY DEF MInv, MarkShape
<1>4. replay_cached' \in [Slaves -> BOOLEAN]
  <2>1. UNCHANGED replay_cached \/ ReplayEnds(s)
          \/ \E st, w, start, cache, off : ReplayWAL(s, st, w, start, cache, off)
    BY DEF SlaveNext, Routine, ReplayStep, ConnectMaster, SlaveConnected, ReplyOK, ReplyError,
       SlaveDisconnected, Timeout, Disconnected, PsyncReply, LoadSnapshot, SetServerKey,
       ResetDataOffset, HandleRedisCommand, SlaveRestart, replayVars, statusVars, slaveVars
  <2>2. ASSUME NEW st, NEW w, NEW start, NEW cache, NEW off, ReplayWAL(s, st, w, start, cache, off)
        PROVE  replay_cached' \in [Slaves -> BOOLEAN]
    BY <1>3, <2>2 DEF ReplayWAL, FromCache
  <2>3. CASE ReplayEnds(s)
    BY <1>3, <2>3 DEF ReplayEnds
  <2> QED BY <1>3, <2>1, <2>2, <2>3
<1>5. /\ wal_reset' \in [Slaves -> Nat] /\ wal_cache_start' \in [Slaves -> Nat]
      /\ wal_opened' \in [Slaves -> Nat]
  <2>1. \/ UNCHANGED <<wal_reset, wal_cache_start, wal_opened>>
        \/ \E c : Log(s, c) /\ UNCHANGED <<wal_reset, wal_opened>>
        \/ LoadSnapshot(s, SubSeq(history, 1, cached_offset[s]))
        \/ SlaveRestart(s)
    BY DEF SlaveNext, Routine, ReplayStep, ConnectMaster, SlaveConnected, ReplyOK, ReplyError,
       SlaveDisconnected, Timeout, Disconnected, PsyncReply, SetServerKey,
       ResetDataOffset, HandleRedisCommand, dataVars
  <2>2. ASSUME NEW c, Log(s, c) PROVE wal_cache_start' \in [Slaves -> Nat]
    <3>1. Retain(wal_cache_start[s], Len(wal[s]) + 1, SlaveCacheSize) \in Nat
      BY <1>1, <1>3 DEF Retain
    <3> QED BY <1>3, <2>2, <3>1 DEF Log
  <2>3. CASE LoadSnapshot(s, SubSeq(history, 1, cached_offset[s]))
    BY <1>1, <1>3, <2>3 DEF LoadSnapshot
  <2>4. CASE SlaveRestart(s)
    BY <1>1, <1>3, <2>4 DEF SlaveRestart
  <2> QED BY <1>3, <2>1, <2>2, <2>3, <2>4
<1>6. /\ spoilt' \in [Slaves -> BOOLEAN]
      /\ \A t \in Slaves : spoilt'[t] => spoilt[t] \/ strays[t] # {}
  <2>1. \/ UNCHANGED spoilt
        \/ \E c : Log(s, c)
        \/ spoilt' = [spoilt EXCEPT ![s] = FALSE]
    BY DEF SlaveNext, Routine, ReplayStep, ConnectMaster, SlaveConnected, ReplyOK, ReplyError,
       SlaveDisconnected, Timeout, Disconnected, PsyncReply, LoadSnapshot, SetServerKey,
       ResetDataOffset, HandleRedisCommand, SlaveRestart, dataVars
  <2>2. CASE \E c : Log(s, c)
    <3>1. PICK b : b = (spoilt[s] \/ (Len(wal[s]) + 1) \in strays[s])
      OBVIOUS
    <3>2. spoilt' = [spoilt EXCEPT ![s] = b]
      BY <2>2, <3>1 DEF Log
    <3>3. b \in BOOLEAN
      BY <3>1
    <3>4. b => spoilt[s] \/ strays[s] # {}
      BY <3>1
    <3> QED BY <1>3, <3>2, <3>3, <3>4
  <2>3. CASE spoilt' = [spoilt EXCEPT ![s] = FALSE]
    BY <1>3, <2>3
  <2> QED BY <1>3, <2>1, <2>2, <2>3
<1>7. MarkShape' /\ (MayStray' <=> MayStray)
  BY <1>2, <1>4, <1>5, <1>6 DEF MInv, MarkShape, MayStray
<1> QED BY <1>2, <1>6, <1>7 DEF MInv

LEMMA InitMInv ==
  ASSUME Init
  PROVE  MInv
<1>1. /\ history = [i \in 1..FirstOffset |-> i] /\ log_start = FirstOffset
      /\ log_cache_start = FirstOffset /\ log_opened = FirstOffset /\ FirstOffset \in Nat
      /\ strays = [s \in Slaves |-> {}] /\ spoilt = [s \in Slaves |-> FALSE]
      /\ replay_cached = [s \in Slaves |-> FALSE]
      /\ wal_start = [s \in Slaves |-> Len(JoinedWith[s])]
      /\ wal_reset = wal_start /\ wal_cache_start = wal_start /\ wal_opened = wal_start
  BY MasterAssumption DEF Init, LinkInit, MasterInit, SlaveInit
<1>2. Len(history) = FirstOffset
  BY <1>1
<1>3. wal_start \in [Slaves -> Nat]
  BY InitRInv DEF RInv, Shape, SlaveShape
<1>4. MarkShape
  BY <1>1, <1>2, <1>3 DEF MarkShape
<1> QED BY <1>1, <1>4 DEF MInv

LEMMA NextMInv ==
  ASSUME RInv, MInv, [Next]_vars
  PROVE  MInv'
<1>1. CASE UNCHANGED vars
  BY <1>1, MarksStill DEF vars, masterVars, slaveConnVars
<1> QED BY <1>1, MasterMarks, SlaveMarks DEF Next

\* A master that sends other bytes than its log has, or has spoilt a slave with
\* them, has a log that went round its file or was opened again (swal_replay).
THEOREM MarksHold == Spec => []MInv
  BY InitMInv, NextMInv, InvariantHolds, PTL DEF Spec

\* In every state every variable has its type, a slave that presents the
\* master's key has the beginning of the master's log in its own
\* (HandleRedisCommand, SyncSlave), but for one that was sent other bytes by a
\* master whose log had gone round or been opened again (swal_replay), and a
\* slave that waits for a snapshot has a save under way (CreateSnapshot).
THEOREM ConsistencyTheorem == Spec => []SlavesConsistent
<1>1. RInv /\ MInv => SlavesConsistent
  <2> SUFFICES ASSUME RInv, MInv PROVE SlavesConsistent
    OBVIOUS
  <2>1. TypeOK
    <3>1. /\ store \in Seq(Commands) /\ queue \in Seq(Commands) /\ history \in Seq(Commands)
          /\ \A w \in Workers : posting[w] \in Commands
          /\ log_start \in 0..Len(history) /\ snapshot_saving \in -1..Len(history)
          /\ \A s \in Slaves : writing[s] \in {"off", "once", "on"}
      BY DEF RInv, Shape, MasterShape
    <3>3. /\ log_cache_start \in Nat /\ log_opened \in FirstOffset..Len(history)
          /\ \A s \in Slaves :
               /\ wal_reset[s] \in Nat /\ wal_opened[s] \in Nat /\ wal_cache_start[s] \in Nat
               /\ spoilt[s] \in BOOLEAN /\ replay_cached[s] \in BOOLEAN
               /\ strays[s] \subseteq 1..Len(history)
      BY DEF MInv, MarkShape
    <3>2. ASSUME NEW s \in Slaves
          PROVE  /\ ends[s] \subseteq {"master", "slave"} /\ Len(request[s]) <= 1
                 /\ sync_state[s] \in SyncStates /\ sync_offset[s] \in 0..Len(history)
                 /\ state[s] \in SlaveStates /\ server_key[s] \in {MasterKey, OtherKey}
                 /\ loading[s] \in {"no", "running", "keyed"} /\ wal[s] \in Seq(Commands)
                 /\ db[s] \in Seq(Commands) /\ snapshot[s] \in Seq(Commands)
                 /\ wal_start[s] \in 0..Len(wal[s]) /\ data_offset[s] \in Nat
                 /\ replay_end[s] \in Nat /\ stale[s] \in BOOLEAN
      <4>1. Ends(s) /\ Asked(s) /\ Logged(s)
        BY Known
      <4>2. Len(request[s]) <= 1
        <5>1. CASE request[s] = <<>>
          BY <5>1
        <5>2. CASE request[s] # <<>>
          <6>1. Len(request[s]) = 1
            BY <4>1, <5>2, Zenon DEF Asked
          <6> QED BY <6>1
        <5> QED BY <5>1, <5>2
      <4>3. sync_offset[s] <= Len(history) /\ wal_start[s] <= Len(wal[s])
        BY <4>1 DEF Ends, Logged
      <4> QED BY <4>2, <4>3, Known
    <3> QED BY <3>1, <3>2, <3>3 DEF TypeOK, IsLog, SyncStates, SlaveStates, Handshake
  <2>2. LogCopied
    <3>1. ASSUME NEW s \in Slaves PROVE IsPrefixOf(wal[s], history)
      <4>1. wal[s] \in Seq(Commands) /\ history \in Seq(Commands) /\ Prefix(wal[s], history)
        BY Known DEF Logged
      <4>2. Len(wal[s]) <= Len(history) /\ wal[s] = SubSeq(history, 1, Len(wal[s]))
        BY <4>1, PrefixFacts DEF Prefix
      <4> QED BY <4>2 DEF IsPrefixOf
    <3> QED BY <3>1 DEF LogCopied, MInv
  <2>3. WaitersHaveSave
    BY DEF RInv, Saving, WaitersHaveSave, Waiting
  <2> QED BY <2>1, <2>2, <2>3 DEF SlavesConsistent
<1> QED BY <1>1, InvariantHolds, MarksHold, PTL

LEMMA Continued ==
  ASSUME NEW w \in Seq(Commands), NEW q \in Seq(Commands), NEW h \in Seq(Commands),
         Prefix(w, h), Len(w) + Len(q) <= Len(h), \A i \in 1..Len(q) : q[i] = h[Len(w) + i]
  PROVE  w \o q = SubSeq(h, 1, Len(w) + Len(q))
<1> DEFINE n == Len(w)
           k == Len(q)
           g == SubSeq(h, 1, n + k)
<1>1. /\ w \o q \in Seq(Commands) /\ Len(w \o q) = n + k /\ n \in Nat /\ k \in Nat
      /\ \A i \in 1..n : (w \o q)[i] = w[i]
      /\ \A i \in n + 1..n + k : (w \o q)[i] = q[i - n]
  BY ConcatProperties
<1>2. n + k \in 0..Len(h)
  BY <1>1
<1>3. g \in Seq(Commands) /\ Len(g) = n + k /\ \A i \in 1..n + k : g[i] = h[i]
  BY <1>2, SubSeqProperties
<1>4. ASSUME NEW i \in 1..n + k PROVE (w \o q)[i] = g[i]
  <2>1. CASE i <= n
    BY <1>1, <1>3, <2>1 DEF Prefix
  <2>2. CASE i > n
    <3>1. i - n \in 1..k /\ n + (i - n) = i /\ i \in n + 1..n + k
      BY <1>1, <2>2
    <3> QED BY <1>1, <1>3, <3>1
  <2> QED BY <1>1, <2>1, <2>2
<1> QED BY <1>1, <1>3, <1>4, SeqEqual

\* In every state what is on its way to a synced slave continues its log without
\* gap, overlap or reordering, up to the offset the master keeps for it, with
\* the commands of the master's log but for the places it strays from, and it
\* strays from none unless its log has gone round or been opened again
\* (send_wal_toslave).
THEOREM StreamTheorem == Spec => []StreamContinues
<1>1. RInv /\ MInv => StreamContinues
  <2> SUFFICES ASSUME RInv, MInv, NEW s \in Slaves, state[s] \in {"LOADING_SNAPSHOT", "SYNCED"},
                      sync_state[s] = "SYNCED", ends[s] = {"master", "slave"}
               PROVE  /\ \A i \in DOMAIN stream[s] : stream[s][i].t = "CMD"
                      /\ wal[s] \o [i \in DOMAIN stream[s] |-> stream[s][i].cmd]
                           = SubSeq(history, 1, sync_offset[s])
    BY DEF StreamContinues, MInv
  <2> DEFINE m == stream[s]
             w == wal[s]
             n == Len(w)
             so == sync_offset[s]
             q == [i \in DOMAIN m |-> m[i].cmd]
  <2>1. /\ m \in Seq(Message) /\ w \in Seq(Commands) /\ history \in Seq(Commands)
        /\ n \in Nat /\ Len(m) \in Nat /\ Len(history) \in Nat /\ DOMAIN m = 1..Len(m)
        /\ Prefix(w, history) /\ Reads(s) /\ Writes(s)
    BY Known DEF Logged
  <2>2. Flow(m, n, history) /\ \A i \in 1..Len(m) : m[i] # EOF
    BY <2>1 DEF Reads, Incoming, Writes, Open
  <2>3. so = n + Len(m)
    BY <2>1 DEF Writes, Open, Position
  <2>4. so \in 0..Len(history)
    BY Known DEF Ends
  <2>5. \A i \in 1..Len(m) : n + i <= Len(history) /\ m[i] = Cmd(history[n + i])
    BY <2>2 DEF Flow
  <2>6. \A i \in 1..Len(m) : m[i].t = "CMD" /\ m[i].cmd = history[n + i]
    BY <2>5, Kinds
  <2>7. \A i \in 1..Len(m) : n + i \in 1..Len(history) /\ history[n + i] \in Commands
    BY <2>1, <2>5
  <2>8. /\ q \in Seq(Commands) /\ Len(q) = Len(m) /\ \A i \in 1..Len(m) : q[i] = history[n + i]
    <3>1. q \in [1..Len(m) -> Commands]
      BY <2>1, <2>6, <2>7
    <3> QED BY <2>1, <2>6, <3>1
  <2> HIDE DEF q
  <2>9. w \o q = SubSeq(history, 1, so)
    <3>1. Len(w) + Len(q) = so /\ so <= Len(history) /\ \A i \in 1..Len(q) : q[i] = history[Len(w) + i]
      <4>1. so <= Len(history)
        BY <2>1, <2>4
      <4> HIDE DEF so, m, w
      <4> QED BY <2>3, <2>8, <4>1
    <3> HIDE DEF w, so
    <3> QED BY <2>1, <2>8, <3>1, Continued
  <2> QED BY <2>1, <2>6, <2>9 DEF q
<1> QED BY <1>1, InvariantHolds, MarksHold, PTL

\* In every state a slave that is not stale has in its store every command up
\* to the offset it says it has applied, and nothing the master has not
\* executed (Save, ReplayWAL).
THEOREM StoreTheorem == Spec => []NothingLost
<1>1. RInv => NothingLost
  <2> SUFFICES ASSUME RInv, NEW s \in Slaves, server_key[s] = MasterKey, loading[s] = "no", ~stale[s]
               PROVE  /\ \A o \in 1..data_offset[s] :
                           history[o] # PING => \E i \in DOMAIN db[s] : db[s][i] = history[o]
                      /\ \A i \in DOMAIN db[s] : \E j \in DOMAIN store : db[s][i] = store[j]
    BY DEF NothingLost
  <2>1. Covers(db[s], data_offset[s], history, store)
    BY Known DEF Stored
  <2> QED BY <2>1 DEF Covers, Elements
<1> QED BY <1>1, InvariantHolds, PTL
=============================================================================
