----------------------------- MODULE Replication ----------------------------
(***************************************************************************)
(* A master and its slaves (Master, Slave) over their connections (Link).  *)
(***************************************************************************)
EXTENDS Master, Slave

\* A slave starts with nothing, or as a copy of the beginning of the log: the
\* master was promoted from among its siblings.
ASSUME JoinedAssumption ==
  \E n \in [Slaves -> 0..FirstOffset] :
    JoinedWith = [s \in Slaves |-> [i \in 1..n[s] |-> i]]

vars == <<linkVars, masterVars, slaveVars>>

Init == LinkInit /\ MasterInit /\ SlaveInit

SlaveNext(s) ==
  \/ Routine(s) \/ ReplayStep(s)
  \/ ConnectMaster(s) \/ SlaveConnected(s) \/ ReplyOK(s) \/ ReplyError(s)
  \/ SlaveDisconnected(s) \/ Timeout(s)
  \/ PsyncReply(s) \/ LoadSnapshot(s, SubSeq(history, 1, cached_offset[s]))
  \/ SetServerKey(s) \/ ResetDataOffset(s) \/ HandleRedisCommand(s)
  \/ SlaveRestart(s)

Next ==
  \/ MasterNext /\ UNCHANGED slaveVars
  \/ \E s \in Slaves : SlaveNext(s) /\ UNCHANGED masterVars

Spec == Init /\ [][Next]_vars

\* Threads are scheduled, event loops serve ready connections and timers, the
\* kernel delivers what was written: every step but the executions, errors,
\* closes and restarts, which may stop, is eventually taken when it stays enabled.
Fairness ==
  /\ \A w \in Workers : WF_vars(WriteWAL(w) /\ UNCHANGED slaveVars)
  /\ WF_vars(WriteWALCallback /\ UNCHANGED slaveVars)
  /\ WF_vars(Backup /\ UNCHANGED slaveVars)
  /\ WF_vars((SaveDone \/ (Waiting = {} /\ SaveFailed)) /\ UNCHANGED slaveVars)
  /\ \A s \in Slaves :
       /\ WF_vars((AddSlave(s) \/ SnapshotSent(s) \/ ChannelClosed(s)) /\ UNCHANGED slaveVars)
       /\ WF_vars(ChannelWritable(s) /\ UNCHANGED slaveVars)
       /\ WF_vars((Routine(s) \/ ReplayStep(s)) /\ UNCHANGED masterVars)
       /\ WF_vars((ConnectMaster(s) \/ SlaveConnected(s) \/ ReplyOK(s)
                     \/ SetServerKey(s) \/ ResetDataOffset(s)) /\ UNCHANGED masterVars)
       /\ WF_vars((SlaveDisconnected(s) \/ PsyncReply(s) \/ HandleRedisCommand(s)
                     \/ LoadSnapshot(s, SubSeq(history, 1, cached_offset[s])))
                  /\ UNCHANGED masterVars)

FairSpec == Spec /\ Fairness
-----------------------------------------------------------------------------
(***************************************************************************)
(* Properties.                                                             *)
(***************************************************************************)
Commands == 0..(FirstOffset + MaxCmds)
IsLog(l) == l \in Seq(Commands)

TypeOK ==
  /\ \A s \in Slaves : ends[s] \subseteq {"master", "slave"}
  /\ \A s \in Slaves : Len(request[s]) <= 1
  /\ IsLog(store) /\ IsLog(queue) /\ IsLog(history)
  /\ \A w \in Workers : posting[w] \in Commands
  /\ log_start \in 0..Len(history)
  /\ log_cache_start \in Nat /\ log_opened \in FirstOffset..Len(history)
  /\ snapshot_saving \in -1..Len(history)
  /\ \A s \in Slaves :
       /\ sync_state[s] \in {"absent", "NULL", "WAITING_SNAPSHOT", "SYNCING_SNAPSHOT", "SYNCED"}
       /\ sync_offset[s] \in 0..Len(history)
       /\ writing[s] \in {"off", "once", "on"}
       /\ state[s] \in {"INVALID", "CONNECTING", "WAITING_AUTH_REPLY", "WAITING_INFO_REPLY",
                        "WAITING_REPLCONF_REPLY", "WAITING_PSYNC_REPLY", "WAITING_SNAPSHOT",
                        "LOADING_SNAPSHOT", "SYNCED"}
       /\ server_key[s] \in {MasterKey, OtherKey}
       /\ loading[s] \in {"no", "running", "keyed"}
       /\ IsLog(wal[s]) /\ IsLog(db[s]) /\ IsLog(snapshot[s])
       /\ wal_start[s] \in 0..Len(wal[s])
       /\ wal_reset[s] \in Nat /\ wal_opened[s] \in Nat /\ wal_cache_start[s] \in Nat
       /\ spoilt[s] \in BOOLEAN
       /\ strays[s] \subseteq 1..Len(history) /\ replay_cached[s] \in BOOLEAN
       /\ data_offset[s] \in Nat /\ replay_end[s] \in Nat /\ stale[s] \in BOOLEAN

IsPrefixOf(l, m) == Len(l) <= Len(m) /\ l = SubSeq(m, 1, Len(l))

\* A master whose log has gone round its file, or that was started again since
\* it began to log: only such a one may send other bytes than its log has.
MayStray == Len(history) - FirstOffset >= WalSize \/ log_opened > FirstOffset

\* A slave that presents the master's key has, command by command, the
\* beginning of the master's log in its own, through resyncs, broken
\* connections and restarts: what PSYNC offsets mean (HandleRedisCommand,
\* SyncWAL, SyncSlave).  The only slaves that are sent anything else (spoilt) are
\* those of a master whose log has gone round its file, or that was started
\* again since it began to log.
LogCopied ==
  \A s \in Slaves :
    /\ server_key[s] = MasterKey /\ ~spoilt[s] => IsPrefixOf(wal[s], history)
    /\ spoilt[s] => MayStray

\* What is on its way to a synced slave continues its log without gap, overlap
\* or reordering, up to the offset the master has recorded for it
\* (send_wal_toslave): place after place, and with the command the master's log
\* has there in every place but those that are `strays', of which there are
\* none unless the master's log has gone round or been opened again.
StreamContinues ==
  \A s \in Slaves :
    /\ state[s] \in {"LOADING_SNAPSHOT", "SYNCED"} /\ sync_state[s] = "SYNCED"
         /\ ends[s] = {"master", "slave"} =>
       /\ \A i \in DOMAIN stream[s] : stream[s][i].t = "CMD"
       /\ wal[s] \o [i \in DOMAIN stream[s] |-> stream[s][i].cmd]
            = SubSeq(history, 1, sync_offset[s])
    /\ strays[s] # {} => MayStray

\* Every command the slave says it has applied, and nothing the master did
\* not execute, is in its store, wherever the snapshot, the replay and the
\* live stream met, and whenever they were interrupted (Save, ReplayWAL); but
\* for a slave that is stale: it died between SetServerKey and ResetDataOffset
\* with a data_offset ahead of the snapshot it had loaded; it replayed a part of
\* its log that was not in its cache though announced, whose slot had been
\* reused, or that lies across the end of the ring; or it was sent other bytes
\* than its master's log.
NothingLost ==
  \A s \in Slaves :
    server_key[s] = MasterKey /\ loading[s] = "no" /\ ~stale[s] =>
      /\ \A o \in 1..data_offset[s] :
           history[o] # PING => \E i \in DOMAIN db[s] : db[s][i] = history[o]
      /\ \A i \in DOMAIN db[s] : \E j \in DOMAIN store : db[s][i] = store[j]

\* A slave that waits for a snapshot has a save under way, whoever asked for
\* it, which will serve it or close it (CreateSnapshot, ERR_SNAPSHOT_SAVING).
WaitersHaveSave == Waiting # {} => snapshot_saving # -1

\* Once the workers are quiet every slave ends up synced, with the whole log
\* of the master applied, whatever broke before.
CatchesUp ==
  <>[](\A s \in Slaves : state[s] = "SYNCED" /\ data_offset[s] = Len(history)
                           /\ wal[s] = history)

\* What the parts rely on: every variable has its type, what a slave of this
\* master has logged is the beginning of the master's log, and no slave waits
\* for a snapshot that nobody makes.
SlavesConsistent == TypeOK /\ LogCopied /\ WaitersHaveSave
=============================================================================
