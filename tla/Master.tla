------------------------------- MODULE Master -------------------------------
(***************************************************************************)
(* The master side of replication (replication/master.cpp), with the parts *)
(* of the replication service (repl.cpp) and of Snapshot::Save it uses.    *)
(*                                                                         *)
(* Worker threads execute commands and post them to the replication        *)
(* thread, which appends them to the log and feeds the slaves.  While it   *)
(* dumps a snapshot the replication thread keeps running its event loop    *)
(* (DumpRDBRoutine), so every other handler may run between the start and  *)
(* the end of a save.                                                      *)
(*                                                                         *)
(* A command is a number; the store is the sequence of commands executed   *)
(* on it.  The log of the master is `history', all commands logged under   *)
(* its server key, of which the last ones, after log_start, can be read.   *)
(* A checksum stands for the sequence of commands it covers.  Slaves are   *)
(* comms instances (PSYNC with cksm), and the master has no master itself. *)
(* A process that dies in the middle of swal_append, and a write of the    *)
(* log that fails, are the subject of Swal and left out here.              *)
(***************************************************************************)
EXTENDS Link

CONSTANTS
  Workers,       \* worker threads that execute commands
  MaxCmds,       \* bound: commands executed
  MaxPings,      \* bound: heartbeats
  MaxSaveErrors, \* bound: snapshots that fail
  WalSize,       \* repl_wal_size, in commands
  CacheSize,     \* repl_wal_cache_size of the master, in commands; 0: no cache
  MAX_SEND_CACHE_SIZE,  \* commands sent per replay
  FirstOffset    \* offset at which the log of the master was reset: 0 for an
                 \* instance that was never a slave

ASSUME MasterAssumption ==
  /\ WalSize \in Nat \ {0}
  /\ CacheSize \in Nat
  /\ MAX_SEND_CACHE_SIZE \in Nat \ {0}
  /\ FirstOffset \in Nat
  /\ MaxCmds \in Nat

VARIABLES
  store,         \* commands executed by the workers, in order
  posting,       \* posting[w]: executed by w and not yet posted, or PING
  queue,         \* WriteWALCallback tasks of the replication thread
  history, log_start,
  log_cache_start,   \* ring_cache_start_offset
  log_opened,        \* where the log ended when this process opened it: the
                     \* cache, newly allocated, has nothing that is older
  snapshot_saving,   \* offset captured by Save, or -1 when none is running
  backup,            \* contents written by Backup of the running save
  sync_state, sync_offset,          \* SlaveConn
  writing,       \* "off", "on", or "once" with auto_disable_writing
  file_sending,  \* contents of the file being sent
  pings, save_errors

workVars == <<store, posting, queue>>
logVars == <<history, log_start, log_cache_start, log_opened>>
saveVars == <<snapshot_saving, backup, save_errors>>
slaveConnVars == <<sync_state, sync_offset, writing, file_sending, strays>>
masterVars == <<workVars, logVars, saveVars, slaveConnVars, pings>>

None == <<-1>>   \* no backup, or no file

MasterInit ==
  /\ history = [i \in 1..FirstOffset |-> i] /\ log_start = FirstOffset
  /\ log_cache_start = FirstOffset /\ log_opened = FirstOffset
  /\ store = history
  /\ posting = [w \in Workers |-> PING] /\ queue = <<>>
  /\ snapshot_saving = -1 /\ backup = None
  /\ sync_state = [s \in Slaves |-> "absent"]
  /\ sync_offset = [s \in Slaves |-> 0]
  /\ writing = [s \in Slaves |-> "off"]
  /\ file_sending = [s \in Slaves |-> None]
  /\ pings = 0 /\ save_errors = 0
-----------------------------------------------------------------------------
(***************************************************************************)
(* Feeding slaves.  Sync(S, st, so, wr, out, h, start) is the rest of a    *)
(* handler that has set states st, offsets so, writing wr and written out, *)
(* when it calls SyncWAL(slave) for the slaves in S with log h, start.     *)
(* `stream' has for each place the command of the log, `strays' the places *)
(* for which other bytes were sent.                                        *)
(***************************************************************************)
Outside(S, so, h, start) == {s \in S : so[s] < start \/ so[s] > Len(h)}

Reached(offset, h) == Smaller(offset + MAX_SEND_CACHE_SIZE, Len(h))

\* (mutant of Records: of a chunk passed in two calls only the last is sent)
RecordsLastCall(h, from, to) == <<Cmd(h[to])>>

Records(h, from, to) == [i \in 1..(to - from) |-> Cmd(h[from + i])]

\* Where the cache begins when the log is h, the log of now or one longer.
CacheStart(h) ==
  IF h = history THEN log_cache_start ELSE Retain(log_cache_start, Len(h), CacheSize)

\* log_file_pos: where in its file log h ends.
FilePos(h) == (Len(h) - FirstOffset) % WalSize

\* The places from offset o on for which a replay limited to MAX_SEND_CACHE_SIZE
\* passes other bytes than log h has there: the cache has nothing from before
\* it was allocated, and what lies on both sides of the file's end is looked
\* for at a distance from it that takes the limit for the whole length.
Strays(o, h) ==
  IF FromCache(CacheSize, CacheStart(h), o)
  THEN (o + 1)..Smaller(Reached(o, h), log_opened)
  ELSE IF Reached(o, h) = Len(h) \/ Len(h) - o <= FilePos(h)
  THEN {}
  ELSE (o + 1)..Reached(o, h)

Sync(S, st, so, wr, out, h, start) ==
  LET lost == Outside(S, so, h, start)
      fed == {s \in S \ lost : so[s] < Len(h)}
  IN  /\ sync_state' = [s \in Slaves |-> IF s \in lost THEN "NULL" ELSE st[s]]
      /\ sync_offset' = [s \in Slaves |-> IF s \in fed THEN Reached(so[s], h) ELSE so[s]]
      /\ writing' = [s \in Slaves |->
           IF s \in fed THEN IF Reached(so[s], h) = Len(h) THEN "once" ELSE "on"
           ELSE IF s \in lost THEN "off" ELSE wr[s]]
      /\ stream' = [s \in Slaves |->
           Written(s, out[s] \o IF s \in fed THEN Records(h, so[s], Reached(so[s], h))
                                ELSE IF s \in lost THEN <<EOF>> ELSE <<>>)]
      /\ strays' = [s \in Slaves |->
           IF s \in fed THEN {o \in strays[s] : o <= so[s]} \cup Strays(so[s], h)
                        ELSE strays[s]]
      /\ ends' = [s \in Slaves |-> IF s \in lost THEN ends[s] \ {"master"} ELSE ends[s]]

\* The slaves SyncWAL() feeds.  It compares with the start of the log.
Lagging(st, so, start) == {s \in Slaves : st[s] = "SYNCED" /\ so[s] # start}

Silent == [s \in Slaves |-> <<>>]

\* WriteWAL(Buffer) followed by SyncWAL().
AppendAndSync(c) ==
  /\ history' = Append(history, c)
  /\ log_start' = Retain(log_start, Len(history'), WalSize)
  /\ log_cache_start' = CacheStart(history')
  /\ Sync(Lagging(sync_state, sync_offset, log_start'), sync_state, sync_offset, writing,
          Silent, history', log_start')
  /\ UNCHANGED <<log_opened, file_sending, request>>

-----------------------------------------------------------------------------
(***************************************************************************)
(* Workers (Comms::Call, ReplicationService::WriteWAL).                    *)
(***************************************************************************)
Call(w) ==
  /\ posting[w] = PING
  /\ Len(store) - FirstOffset < MaxCmds
  /\ store' = Append(store, Len(store) + 1)
  /\ posting' = [posting EXCEPT ![w] = Len(store) + 1]
  /\ UNCHANGED <<queue, logVars, saveVars, slaveConnVars, pings, linkVars>>

WriteWAL(w) ==
  /\ posting[w] # PING
  /\ queue' = Append(queue, posting[w])
  /\ posting' = [posting EXCEPT ![w] = PING]
  /\ UNCHANGED <<store, logVars, saveVars, slaveConnVars, pings, linkVars>>

WriteWALCallback ==
  /\ queue # <<>>
  /\ queue' = Tail(queue)
  /\ AppendAndSync(Head(queue))
  /\ UNCHANGED <<store, posting, saveVars, pings, closes, restarts>>

OnHeartbeat ==
  /\ pings < MaxPings
  /\ \E s \in Slaves : sync_state[s] # "absent"
  /\ pings' = pings + 1
  /\ AppendAndSync(PING)
  /\ UNCHANGED <<workVars, saveVars, closes, restarts>>

ClearNilSlave ==
  /\ \E s \in Slaves : sync_state[s] = "NULL"
  /\ sync_state' = [s \in Slaves |-> IF sync_state[s] = "NULL" THEN "absent" ELSE sync_state[s]]
  /\ UNCHANGED <<workVars, logVars, saveVars, sync_offset, writing, file_sending, strays, pings,
                 linkVars>>
-----------------------------------------------------------------------------
(***************************************************************************)
(* A slave asks to be synced (AddSlave, SyncSlave).                        *)
(***************************************************************************)
\* The checksum of what was replayed agrees: the slave's log is a copy, and
\* what the master's replay gives is its log.
IsValidOffsetCksm(r) ==
  /\ Len(r.wal) > 0 /\ Len(r.wal) >= log_start /\ Len(r.wal) <= Len(history)
  /\ r.copy /\ r.wal = SubSeq(history, 1, Len(r.wal))
  /\ ~(FromCache(CacheSize, log_cache_start, Len(r.wal)) /\ Len(r.wal) < log_opened)

AddSlave(s) ==
  /\ request[s] # <<>> /\ "master" \in ends[s]
  /\ request' = [request EXCEPT ![s] = <<>>]
  /\ LET r  == request[s][1]
         so == [sync_offset EXCEPT ![s] = Len(r.wal)]
         wr == [writing EXCEPT ![s] = "off"]
     IN  IF r.key = MasterKey /\ IsValidOffsetCksm(r)
         THEN LET st == [sync_state EXCEPT ![s] = "SYNCED"]
              IN  /\ Sync(Lagging(st, so, log_start), st, so, wr,
                          [Silent EXCEPT ![s] = <<Continue>>], history, log_start)
                  /\ UNCHANGED saveVars
         ELSE /\ sync_state' = [sync_state EXCEPT ![s] = "WAITING_SNAPSHOT"]
              /\ sync_offset' = so /\ writing' = wr
              /\ IF snapshot_saving = -1
                 THEN /\ snapshot_saving' = Len(history)
                      /\ backup' = None
                      /\ UNCHANGED save_errors
                 ELSE UNCHANGED saveVars       \* ERR_SNAPSHOT_SAVING
              /\ UNCHANGED <<ends, stream, strays>>
  /\ UNCHANGED <<workVars, logVars, file_sending, pings, closes, restarts>>
-----------------------------------------------------------------------------
(***************************************************************************)
(* Snapshots (Snapshot::Save, MMKVSave, CreateSnapshot).                   *)
(***************************************************************************)
Waiting == {s \in Slaves : sync_state[s] = "WAITING_SNAPSHOT"}

\* The thread started by MMKVSave copies the store.
Backup ==
  /\ snapshot_saving # -1 /\ backup = None
  /\ backup' = store
  /\ UNCHANGED <<workVars, logVars, snapshot_saving, save_errors, slaveConnVars, pings, linkVars>>

\* (mutant of SavedOffset: the offset is read when the save ends)
SavedOffsetAtEnd == Len(history)

\* The offset a finished save belongs to: the one captured when it began.
SavedOffset == snapshot_saving

\* The save ends: FullResyncSlaves, SendSnapshotToSlave.
SaveDone ==
  /\ snapshot_saving # -1 /\ backup # None
  /\ snapshot_saving' = -1 /\ backup' = None
  /\ sync_state' = [s \in Slaves |-> IF s \in Waiting THEN "SYNCING_SNAPSHOT" ELSE sync_state[s]]
  /\ sync_offset' = [s \in Slaves |-> IF s \in Waiting THEN SavedOffset ELSE sync_offset[s]]
  /\ file_sending' = [s \in Slaves |-> IF s \in Waiting THEN backup ELSE file_sending[s]]
  /\ writing' = [s \in Slaves |-> IF s \in Waiting THEN "on" ELSE writing[s]]
  /\ stream' = [s \in Slaves |->
       IF s \in Waiting THEN Written(s, <<FullResync(SavedOffset)>>) ELSE stream[s]]
  /\ UNCHANGED <<workVars, logVars, save_errors, strays, pings, ends, request, closes, restarts>>

\* (mutant of SaveFailed: the slaves that wait keep their connections)
SaveFailedSilently ==
  /\ snapshot_saving # -1
  /\ save_errors < MaxSaveErrors /\ save_errors' = save_errors + 1
  /\ snapshot_saving' = -1 /\ backup' = None
  /\ UNCHANGED <<workVars, logVars, slaveConnVars, pings, linkVars>>

\* The save fails, or DumpRDBRoutine aborts it because no slave waits:
\* CreateSnapshot closes the slaves that wait.
SaveFailed ==
  /\ snapshot_saving # -1
  /\ \/ Waiting = {} /\ UNCHANGED save_errors
     \/ save_errors < MaxSaveErrors /\ save_errors' = save_errors + 1
  /\ snapshot_saving' = -1 /\ backup' = None
  /\ sync_state' = [s \in Slaves |-> IF s \in Waiting THEN "NULL" ELSE sync_state[s]]
  /\ MasterEndCloses(Waiting)
  /\ UNCHANGED <<workVars, logVars, sync_offset, writing, file_sending, strays, pings, closes,
                 restarts>>

\* Channel::OnWrite with the end of the file: OnSnapshotFileSendComplete, then
\* ChannelWritable.
SnapshotSent(s) ==
  /\ sync_state[s] = "SYNCING_SNAPSHOT"
  /\ file_sending' = [file_sending EXCEPT ![s] = None]
  /\ Sync({s}, [sync_state EXCEPT ![s] = "SYNCED"], sync_offset, writing,
          [Silent EXCEPT ![s] = <<Snapshot(file_sending[s])>>], history, log_start)
  /\ UNCHANGED <<workVars, logVars, saveVars, pings, request, closes, restarts>>

\* Channel::OnWrite with nothing to flush: ChannelWritable, then writing is
\* disabled if nothing was written and auto_disable_writing is set.
ChannelWritable(s) ==
  /\ sync_state[s] = "SYNCED" /\ writing[s] # "off"
  /\ IF sync_offset[s] = Len(history) /\ writing[s] = "once"
     THEN /\ writing' = [writing EXCEPT ![s] = "off"]
          /\ UNCHANGED <<sync_state, sync_offset, stream, strays, ends>>
     ELSE Sync({s}, sync_state, sync_offset, writing, Silent, history, log_start)
  /\ UNCHANGED <<workVars, logVars, saveVars, file_sending, pings, request, closes, restarts>>
-----------------------------------------------------------------------------
(***************************************************************************)
(* Closed connections and restarts.                                        *)
(***************************************************************************)
Forget(s) ==
  /\ sync_state' = [sync_state EXCEPT ![s] = IF @ = "absent" THEN @ ELSE "NULL"]
  /\ writing' = [writing EXCEPT ![s] = "off"]
  /\ file_sending' = [file_sending EXCEPT ![s] = None]
  /\ UNCHANGED <<workVars, logVars, saveVars, sync_offset, strays, pings>>

\* The master notices that the slave has closed its end.
ChannelClosed(s) ==
  /\ ends[s] = {"master"}
  /\ request[s] = <<>>
  /\ ends' = [ends EXCEPT ![s] = {}]
  /\ Forget(s)
  /\ UNCHANGED <<request, stream, closes, restarts>>

ConnectionBreaks(s) == Break(s) /\ Forget(s)

\* The process dies and starts again: the log and the store survive, tasks
\* that were not run and connections do not.  swal_open announces the whole
\* log as cached.
MasterRestart ==
  /\ restarts < MaxRestarts
  /\ restarts' = restarts + 1
  /\ posting' = [w \in Workers |-> PING] /\ queue' = <<>>
  /\ log_cache_start' = log_start /\ log_opened' = Len(history)
  /\ snapshot_saving' = -1 /\ backup' = None
  /\ sync_state' = [s \in Slaves |-> "absent"]
  /\ sync_offset' = [s \in Slaves |-> 0]
  /\ writing' = [s \in Slaves |-> "off"]
  /\ file_sending' = [s \in Slaves |-> None]
  /\ MasterEndCloses({s \in Slaves : "master" \in ends[s]})
  /\ UNCHANGED <<store, history, log_start, save_errors, strays, pings, closes>>

MasterNext ==
  \/ \E w \in Workers : Call(w) \/ WriteWAL(w)
  \/ WriteWALCallback \/ OnHeartbeat \/ ClearNilSlave
  \/ Backup \/ SaveDone \/ SaveFailed
  \/ \E s \in Slaves :
       AddSlave(s) \/ SnapshotSent(s) \/ ChannelWritable(s)
         \/ ChannelClosed(s) \/ ConnectionBreaks(s)
  \/ MasterRestart
=============================================================================
