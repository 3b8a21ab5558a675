-------------------------------- MODULE Slave -------------------------------
(***************************************************************************)
(* The slave side of replication (replication/slave.cpp), with the parts   *)
(* of the replication service (repl.cpp) it uses.                          *)
(*                                                                         *)
(* The server key, the log, data_offset and the store survive a restart.   *)
(* Commands received are appended to the slave's own log and applied to    *)
(* its store at once when the store is up to date, else by replaying the   *)
(* log, during which (Continue) more commands may be received.             *)
(* The bytes of a replay are read where the ring has them, from the cache  *)
(* or the file, while the log goes on growing.                             *)
(*                                                                         *)
(* A slave that was sent other bytes than the master's log is `spoilt':    *)
(* the decoder finds other commands in them, or drops what it cannot read, *)
(* so that nothing it logs from then on is in its place.  Here `wal' goes  *)
(* on counting what the master meant, and says nothing else.               *)
(*                                                                         *)
(* A process that dies in the middle of swal_append or swal_reset, and a   *)
(* write of the log that fails, are the subject of Swal and left out here. *)
(***************************************************************************)
EXTENDS Link

CONSTANTS
  SlaveWalSize,   \* repl_wal_size of the slaves, in commands
  SlaveCacheSize, \* repl_wal_cache_size of the slaves, in commands; 0: no cache
  OtherKey,       \* any other key: a slave's own, or random_hex_string(40)
  masterauth,     \* "set" or "empty"
  MaxErrors,      \* bound: error replies during the handshake
  JoinedWith      \* JoinedWith[s]: commands of the master's log s starts with

ASSUME SlaveAssumption ==
  /\ SlaveWalSize \in Nat \ {0}
  /\ SlaveCacheSize \in Nat
  /\ OtherKey # MasterKey

VARIABLES
  state,          \* SLAVE_STATE_...
  server_key, data_offset,              \* ReplMeta
  wal, wal_start, \* all commands logged, and the offset of the first kept
  wal_reset,      \* the offset the log was last reset to
  spoilt,         \* history variable: since its last full resync s was sent
                  \* other bytes than its master's log
  wal_cache_start,   \* ring_cache_start_offset
  wal_opened,        \* where the log ended when this process opened or reset it:
                     \* the cache was empty then
  db,             \* commands applied to the store, in order
  cached_offset,  \* cached_master_repl_offset
  snapshot,       \* contents of the snapshot file being loaded
  loading,        \* "no", "running", or "keyed": server key already set
  replay_end,     \* end of the log being replayed, 0 when replaying_wal is false
  replay_cached,  \* the replay reads the cache
  stale,          \* history variable: since its last full resync s moved data_offset
                  \* over commands its store was not given, or gave it others
  errors

dataVars == <<server_key, data_offset, wal, wal_start, wal_reset, spoilt, wal_cache_start,
              wal_opened, db, stale>>
replayVars == <<replay_end, replay_cached>>
statusVars == <<state, cached_offset, snapshot, loading, replayVars>>
slaveVars == <<dataVars, statusVars, errors>>

SlaveInit ==
  /\ state = [s \in Slaves |-> "INVALID"]
  /\ wal = JoinedWith
  /\ wal_start = [s \in Slaves |-> Len(JoinedWith[s])]
  /\ wal_reset = wal_start /\ wal_cache_start = wal_start /\ wal_opened = wal_start
  /\ spoilt = [s \in Slaves |-> FALSE]
  /\ server_key = [s \in Slaves |-> IF JoinedWith[s] = <<>> THEN OtherKey ELSE MasterKey]
  /\ data_offset = [s \in Slaves |-> Len(JoinedWith[s])]
  /\ db = JoinedWith
  /\ cached_offset = [s \in Slaves |-> 0]
  /\ snapshot = [s \in Slaves |-> <<>>]
  /\ loading = [s \in Slaves |-> "no"]
  /\ replay_end = [s \in Slaves |-> 0]
  /\ replay_cached = [s \in Slaves |-> FALSE]
  /\ stale = [s \in Slaves |-> FALSE]
  /\ errors = 0

\* The replication thread is in its event loop, possibly nested in a load or
\* a replay; it is not while it completes a load or leaves a replay.
InLoop(s) == loading[s] # "keyed" /\ (replay_end[s] = 0 \/ state[s] = "SYNCED")

Enter(s, st) == state' = [state EXCEPT ![s] = st]
-----------------------------------------------------------------------------
(***************************************************************************)
(* The log and the store.                                                  *)
(***************************************************************************)
Apply(s, c) ==
  /\ db' = [db EXCEPT ![s] = IF c = PING THEN @ ELSE Append(@, c)]
  /\ data_offset' = [data_offset EXCEPT ![s] = @ + 1]

\* ReplayWAL() in state st, with log w kept in the file from offset start, in the
\* cache from offset cache, and data_offset off: it begins a replay, or not.
ReplayWAL(s, st, w, start, cache, off) ==
  LET cached == FromCache(SlaveCacheSize, cache, off)
      begins == st = "SYNCED" /\ off # Len(w) /\ replay_end[s] = 0 /\ (cached \/ off >= start)
  IN  /\ replay_end' = [replay_end EXCEPT ![s] = IF begins THEN Len(w) ELSE @]
      /\ replay_cached' = [replay_cached EXCEPT ![s] = IF begins THEN cached ELSE @]

ReplayEnds(s) ==
  /\ replay_end' = [replay_end EXCEPT ![s] = 0]
  /\ replay_cached' = [replay_cached EXCEPT ![s] = FALSE]

\* The ring that is replayed, and the offset that lies at its beginning.
RingSize(s) == IF replay_cached[s] THEN SlaveCacheSize ELSE SlaveWalSize
RingStart(s) == IF replay_cached[s] THEN wal_opened[s] ELSE wal_reset[s]

\* Command o of the log is where the replay looks for it: it was logged, the
\* cache is not older than it and its slot was not used again since.
Kept(s, o) ==
  /\ o <= Len(wal[s]) /\ ~spoilt[s]
  /\ Len(wal[s]) - o < RingSize(s)
  /\ replay_cached[s] => o > wal_opened[s]

\* The ring's end may fall inside command o: swal_replay passes the log in two
\* pieces, and a command is looked for in each of them alone.
MayBeCut(s, o) == o < replay_end[s] /\ (o - RingStart(s)) % RingSize(s) = 0

\* What may be taken for a command among other bytes: any command (which one makes
\* no difference to a store that is stale), or one that does nothing.
Anything(s) == {wal[s][i] : i \in DOMAIN wal[s]} \cup {PING}

\* (mutant of Routine: the timer does not replay what is left)
RoutineIdle(s) == InLoop(s) /\ UNCHANGED <<slaveVars, linkVars>>

\* The timer of the slave: ReplayWAL().
Routine(s) ==
  /\ InLoop(s)
  /\ replay_end[s] = 0
  /\ ReplayWAL(s, state[s], wal[s], wal_start[s], wal_cache_start[s], data_offset[s])
  /\ replay_end' # replay_end
  /\ UNCHANGED <<dataVars, state, cached_offset, snapshot, loading, errors, linkVars>>

\* One iteration of ReplayWAL(log, len), up to Continue().  It ends when the
\* slave is no longer synced, or at bytes that are no command.
ReplayStep(s) ==
  LET o == data_offset[s] + 1
  IN  /\ replay_end[s] # 0
      /\ \/ /\ state[s] = "SYNCED"
            /\ \/ Kept(s, o) /\ Apply(s, wal[s][o]) /\ UNCHANGED stale
               \/ /\ ~Kept(s, o) \/ MayBeCut(s, o)
                  /\ \E c \in Anything(s) : Apply(s, c)
                  /\ stale' = [stale EXCEPT ![s] = TRUE]
            /\ IF o < replay_end[s] THEN UNCHANGED replayVars ELSE ReplayEnds(s)
         \/ /\ state[s] # "SYNCED" \/ ~Kept(s, o) \/ MayBeCut(s, o)
            /\ ReplayEnds(s)
            /\ UNCHANGED <<db, data_offset, stale>>
      /\ UNCHANGED <<server_key, wal, wal_start, wal_reset, spoilt, wal_cache_start, wal_opened,
                     state, cached_offset, snapshot, loading, errors, linkVars>>
-----------------------------------------------------------------------------
(***************************************************************************)
(* Connecting and the handshake.                                           *)
(***************************************************************************)
ConnectMaster(s) ==
  /\ InLoop(s) /\ state[s] = "INVALID" /\ ends[s] = {}
  /\ Enter(s, "CONNECTING")
  /\ ends' = [ends EXCEPT ![s] = {"master", "slave"}]
  /\ UNCHANGED <<dataVars, cached_offset, snapshot, loading, replayVars, errors,
                 request, stream, closes, restarts>>

SlaveConnected(s) ==
  /\ InLoop(s) /\ state[s] = "CONNECTING"
  /\ Enter(s, IF masterauth = "set" THEN "WAITING_AUTH_REPLY" ELSE "WAITING_INFO_REPLY")
  /\ UNCHANGED <<dataVars, cached_offset, snapshot, loading, replayVars, errors, linkVars>>

\* HandleRedisReply, replies that are not errors.
ReplyOK(s) ==
  /\ InLoop(s)
  /\ \/ /\ state[s] = "WAITING_AUTH_REPLY"
        /\ Enter(s, "WAITING_INFO_REPLY")
        /\ UNCHANGED request
     \/ /\ state[s] = "WAITING_INFO_REPLY"
        /\ Enter(s, "WAITING_REPLCONF_REPLY")
        /\ UNCHANGED request
     \/ /\ state[s] = "WAITING_REPLCONF_REPLY"
        /\ Enter(s, "WAITING_PSYNC_REPLY")
        /\ request' = [request EXCEPT ![s] = IF "master" \in ends[s]
             THEN <<[key |-> server_key[s], wal |-> wal[s], copy |-> ~spoilt[s]]>> ELSE <<>>]
  /\ UNCHANGED <<dataVars, cached_offset, snapshot, loading, replayVars, errors,
                 ends, stream, closes, restarts>>

\* m_client is gone: ChannelClosed clears the status.
Disconnected(s) ==
  /\ Enter(s, "INVALID")
  /\ cached_offset' = [cached_offset EXCEPT ![s] = 0]
  /\ SlaveEndCloses(s)
  /\ UNCHANGED <<dataVars, snapshot, replayVars>>

\* The snapshot load of s is over when its connection is: LoadRDBRoutine
\* returns -1, whether Restore has put the snapshot in the store or not.
AbortLoad(s) == loading' = [loading EXCEPT ![s] = "no"]

ReplyError(s) ==
  /\ InLoop(s)
  /\ state[s] \in {"WAITING_INFO_REPLY", "WAITING_REPLCONF_REPLY", "WAITING_PSYNC_REPLY"}
  /\ errors < MaxErrors
  /\ errors' = errors + 1
  /\ Disconnected(s)
  /\ UNCHANGED <<loading, closes, restarts>>

\* The connection is closed by the master or broken.
SlaveDisconnected(s) ==
  /\ InLoop(s) /\ stream[s] # <<>> /\ Head(stream[s]) = EOF
  /\ Disconnected(s) /\ AbortLoad(s)
  /\ UNCHANGED <<errors, closes, restarts>>

\* No command for repl_timeout seconds.
Timeout(s) ==
  /\ InLoop(s) /\ state[s] = "SYNCED"
  /\ closes < MaxCloses /\ closes' = closes + 1
  /\ Disconnected(s)
  /\ UNCHANGED <<loading, errors, restarts>>
-----------------------------------------------------------------------------
(***************************************************************************)
(* What the master sends.                                                  *)
(***************************************************************************)
Receive(s) == stream' = [stream EXCEPT ![s] = Tail(@)]

Receives(s, t) == InLoop(s) /\ stream[s] # <<>> /\ Head(stream[s]).t = t

PsyncReply(s) ==
  /\ state[s] = "WAITING_PSYNC_REPLY"
  /\ \/ /\ Receives(s, "FULLRESYNC")
        /\ cached_offset' = [cached_offset EXCEPT ![s] = Head(stream[s]).off]
        /\ Enter(s, "WAITING_SNAPSHOT")
     \/ /\ Receives(s, "CONTINUE")
        /\ Enter(s, "SYNCED")
        /\ UNCHANGED cached_offset
  /\ Receive(s)
  /\ UNCHANGED <<dataVars, snapshot, loading, replayVars, errors, ends, request, closes,
                 restarts>>

\* HandleRedisDumpChunk, last chunk: the log is reset to the announced offset
\* and checksum, the latter standing for the commands `covered'.
LoadSnapshot(s, covered) ==
  /\ state[s] = "WAITING_SNAPSHOT" /\ Receives(s, "SNAPSHOT")
  /\ Receive(s)
  /\ Enter(s, "LOADING_SNAPSHOT")
  /\ server_key' = [server_key EXCEPT ![s] = OtherKey]
  /\ wal' = [wal EXCEPT ![s] = covered]
  /\ wal_start' = [wal_start EXCEPT ![s] = cached_offset[s]]
  /\ wal_reset' = [wal_reset EXCEPT ![s] = cached_offset[s]]
  /\ wal_cache_start' = [wal_cache_start EXCEPT ![s] = cached_offset[s]]
  /\ wal_opened' = [wal_opened EXCEPT ![s] = cached_offset[s]]
  /\ spoilt' = [spoilt EXCEPT ![s] = FALSE]
  /\ db' = [db EXCEPT ![s] = <<>>]             \* slave_cleardb_before_fullresync
  /\ snapshot' = [snapshot EXCEPT ![s] = Head(stream[s]).db]
  /\ loading' = [loading EXCEPT ![s] = "running"]
  /\ stale' = [stale EXCEPT ![s] = FALSE]
  /\ UNCHANGED <<data_offset, cached_offset, replayVars, errors, ends, request, closes, restarts>>

\* Reload returns 0: the store is the snapshot, the server key is set.
SetServerKey(s) ==
  /\ loading[s] = "running" /\ state[s] = "LOADING_SNAPSHOT"
  /\ db' = [db EXCEPT ![s] = snapshot[s]]
  /\ server_key' = [server_key EXCEPT ![s] = MasterKey]
  /\ loading' = [loading EXCEPT ![s] = "keyed"]
  /\ snapshot' = [snapshot EXCEPT ![s] = <<>>]
  /\ UNCHANGED <<data_offset, wal, wal_start, wal_reset, spoilt, wal_cache_start, wal_opened,
                 stale, state, cached_offset, replayVars, errors, linkVars>>

\* The rest of HandleRedisDumpChunk, ReplayWAL() included.
ResetDataOffset(s) ==
  /\ loading[s] = "keyed"
  /\ data_offset' = [data_offset EXCEPT ![s] = cached_offset[s]]
  /\ loading' = [loading EXCEPT ![s] = "no"]
  /\ Enter(s, "SYNCED")
  /\ ReplayWAL(s, "SYNCED", wal[s], wal_start[s], wal_cache_start[s], cached_offset[s])
  /\ UNCHANGED <<server_key, wal, wal_start, wal_reset, spoilt, wal_cache_start, wal_opened, db,
                 stale, cached_offset, snapshot, errors, linkVars>>

\* WriteWAL(Buffer): c goes to the end of the log.
Log(s, c) ==
  /\ wal' = [wal EXCEPT ![s] = Append(@, c)]
  /\ wal_start' = [wal_start EXCEPT ![s] = Retain(@, Len(wal[s]) + 1, SlaveWalSize)]
  /\ wal_cache_start' = [wal_cache_start EXCEPT ![s] = Retain(@, Len(wal[s]) + 1, SlaveCacheSize)]
  /\ spoilt' = [spoilt EXCEPT ![s] = @ \/ (Len(wal[s]) + 1) \in strays[s]]

\* (mutant of HandleRedisCommand: a command received while loading is dropped)
HandleRedisCommandLossy(s) ==
  /\ state[s] \in {"LOADING_SNAPSHOT", "SYNCED"} /\ Receives(s, "CMD")
  /\ Receive(s)
  /\ IF state[s] = "SYNCED" /\ data_offset[s] = Len(wal[s])
     THEN Log(s, Head(stream[s]).cmd) /\ Apply(s, Head(stream[s]).cmd)
     ELSE UNCHANGED <<wal, wal_start, wal_cache_start, spoilt, db, data_offset>>
  /\ UNCHANGED <<server_key, wal_reset, wal_opened, stale, state, cached_offset, snapshot, loading,
                 replayVars, errors, ends, request, closes, restarts>>

HandleRedisCommand(s) ==
  /\ state[s] \in {"LOADING_SNAPSHOT", "SYNCED"} /\ Receives(s, "CMD")
  /\ Receive(s)
  /\ Log(s, Head(stream[s]).cmd)
  /\ IF state[s] = "SYNCED" /\ data_offset[s] = Len(wal[s])
     THEN /\ \E c \in IF spoilt'[s] THEN Anything(s) ELSE {Head(stream[s]).cmd} : Apply(s, c)
          /\ stale' = [stale EXCEPT ![s] = @ \/ spoilt'[s]]
          /\ UNCHANGED replayVars
     ELSE /\ ReplayWAL(s, state[s], wal'[s], wal_start'[s], wal_cache_start'[s], data_offset[s])
          /\ UNCHANGED <<db, data_offset, stale>>
  /\ UNCHANGED <<server_key, wal_reset, wal_opened, state, cached_offset, snapshot, loading, errors,
                 ends, request, closes, restarts>>
-----------------------------------------------------------------------------
\* The process dies, in the event loop, while it finishes a load or between
\* replaying a command and moving data_offset, and starts again.  An error reply
\* to AUTH also ends it: HandleRedisReply closes m_client and then writes to it.
\* swal_open announces the whole log as cached, in a cache that is empty.
SlaveRestart(s) ==
  /\ restarts < MaxRestarts \/ (state[s] = "WAITING_AUTH_REPLY" /\ errors < MaxErrors)
  /\ IF restarts < MaxRestarts
     THEN restarts' = restarts + 1 /\ UNCHANGED errors
     ELSE errors' = errors + 1 /\ UNCHANGED restarts
  /\ Enter(s, "INVALID")
  /\ cached_offset' = [cached_offset EXCEPT ![s] = 0]
  /\ snapshot' = [snapshot EXCEPT ![s] = <<>>]
  /\ ReplayEnds(s)
  /\ AbortLoad(s)
  /\ SlaveEndCloses(s)
  /\ LET o == data_offset[s] + 1
         overtaken == loading[s] = "keyed" /\ data_offset[s] > cached_offset[s]
         replaying == replay_end[s] # 0 /\ state[s] = "SYNCED"
     IN  \/ UNCHANGED db /\ stale' = [stale EXCEPT ![s] = @ \/ overtaken]
         \/ /\ replaying /\ Kept(s, o) /\ wal[s][o] # PING
            /\ db' = [db EXCEPT ![s] = Append(@, wal[s][o])]
            /\ UNCHANGED stale
         \/ /\ replaying /\ (~Kept(s, o) \/ MayBeCut(s, o))
            /\ \E c \in Anything(s) \ {PING} : db' = [db EXCEPT ![s] = Append(@, c)]
            /\ stale' = [stale EXCEPT ![s] = TRUE]
  /\ wal_cache_start' = [wal_cache_start EXCEPT ![s] = wal_start[s]]
  /\ wal_opened' = [wal_opened EXCEPT ![s] = Len(wal[s])]
  /\ UNCHANGED <<server_key, data_offset, wal, wal_start, wal_reset, spoilt, closes>>
=============================================================================
