----------------------------- MODULE Transaction ----------------------------
(***************************************************************************)
(* WATCH, MULTI, EXEC (command/transaction.cpp) and the commands they are  *)
(* about: writes, which change the store and then announce the key         *)
(* (Comms::FireKeyChangedEvent).  A write is named by its key.  Queued     *)
(* commands are writes.                                                    *)
(***************************************************************************)
EXTENDS Contexts

CONSTANTS
  Keys,
  MaxQueued,     \* bound: commands of a transaction
  MaxWrites      \* bound: writes sent by clients in all

VARIABLES
  watch_keys, abort_exec, in_transc, cached_cmds,   \* of each context
  m_watched_ctx, g_transc_mutex,
  changing,      \* the key of the write under way
  victims,       \* contexts AbortWatchKey has still to visit
  writes,        \* counter of the bound
  stored, told   \* history: keys of watch_keys changed in the store since the
                 \* WATCH, and those whose announcement was completed

transcVars == <<watch_keys, abort_exec, in_transc, cached_cmds, m_watched_ctx,
                g_transc_mutex, changing, victims, writes, stored, told>>

TranscInit ==
  /\ watch_keys = [c \in Clients |-> {}]
  /\ abort_exec = {} /\ in_transc = {}
  /\ cached_cmds = [c \in Clients |-> <<>>]
  /\ m_watched_ctx = [k \in Keys |-> {}]
  /\ g_transc_mutex = NULL
  /\ changing = [c \in Clients |-> NULL]
  /\ victims = [c \in Clients |-> {}]
  /\ writes = 0
  /\ stored = [c \in Clients |-> {}]
  /\ told = [c \in Clients |-> {}]

\* m_watched_keys_lock is free for a writer.
WatchLockFree == \A c \in Clients : step[c] # "aborting"

\* The keys ks of each context that watches them.
Noted(history, ks) == [c \in Clients |-> history[c] \cup (watch_keys[c] \cap ks)]
-----------------------------------------------------------------------------
Watch(c, ks) ==
  /\ Ready(c) /\ c \notin in_transc /\ WatchLockFree
  /\ watch_keys' = [watch_keys EXCEPT ![c] = @ \cup ks]
  /\ m_watched_ctx' = [k \in Keys |-> IF k \in ks THEN m_watched_ctx[k] \cup {c}
                                      ELSE m_watched_ctx[k]]
  /\ UNCHANGED <<contextVars, abort_exec, in_transc, cached_cmds, g_transc_mutex,
                 changing, victims, writes, stored, told>>

\* (mutant of UnwatchKeys: the flag is not reset)
UnwatchKeysFlagKept(c) ==
  /\ WatchLockFree
  /\ watch_keys' = [watch_keys EXCEPT ![c] = {}]
  /\ m_watched_ctx' = [k \in Keys |-> m_watched_ctx[k] \ {c}]
  /\ stored' = [stored EXCEPT ![c] = {}]
  /\ told' = [told EXCEPT ![c] = {}]
  /\ UNCHANGED abort_exec

\* (mutant of UnwatchKeys: the table is forgotten)
UnwatchKeysOwnOnly(c) ==
  /\ WatchLockFree
  /\ watch_keys' = [watch_keys EXCEPT ![c] = {}]
  /\ abort_exec' = abort_exec \ {c}
  /\ stored' = [stored EXCEPT ![c] = {}]
  /\ told' = [told EXCEPT ![c] = {}]
  /\ UNCHANGED m_watched_ctx

UnwatchKeys(c) ==
  /\ WatchLockFree
  /\ watch_keys' = [watch_keys EXCEPT ![c] = {}]
  /\ m_watched_ctx' = [k \in Keys |-> m_watched_ctx[k] \ {c}]
  /\ abort_exec' = abort_exec \ {c}
  /\ stored' = [stored EXCEPT ![c] = {}]
  /\ told' = [told EXCEPT ![c] = {}]

UnWatch(c) ==
  /\ Ready(c) /\ c \notin in_transc
  /\ UnwatchKeys(c)
  /\ UNCHANGED <<contextVars, in_transc, cached_cmds, g_transc_mutex, changing, victims, writes>>

Multi(c) ==
  /\ Ready(c) /\ c \notin in_transc
  /\ in_transc' = in_transc \cup {c}
  /\ UNCHANGED <<contextVars, watch_keys, abort_exec, cached_cmds, m_watched_ctx,
                 g_transc_mutex, changing, victims, writes, stored, told>>

\* Comms::Call of a command that is not MULTI, EXEC, DISCARD or QUIT.
Queue(c, k) ==
  /\ Ready(c) /\ c \in in_transc
  /\ Len(cached_cmds[c]) < MaxQueued /\ writes < MaxWrites
  /\ writes' = writes + 1
  /\ cached_cmds' = [cached_cmds EXCEPT ![c] = Append(@, k)]
  /\ UNCHANGED <<contextVars, watch_keys, abort_exec, in_transc, m_watched_ctx,
                 g_transc_mutex, changing, victims, stored, told>>
-----------------------------------------------------------------------------
(***************************************************************************)
(* A write: the store changes, then AbortWatchKey visits the watchers.     *)
(***************************************************************************)
Store(c, k) ==
  /\ Goto(c, "stored")
  /\ changing' = [changing EXCEPT ![c] = k]
  /\ stored' = Noted(stored, {k})
  /\ UNCHANGED <<m_clients, server, watch_keys, abort_exec, in_transc,
                 m_watched_ctx, g_transc_mutex, victims, told>>

Write(c, k) ==
  /\ Ready(c) /\ c \notin in_transc
  /\ writes < MaxWrites
  /\ writes' = writes + 1
  /\ Store(c, k)
  /\ UNCHANGED cached_cmds

AbortWatchKey(c) ==
  /\ step[c] = "stored"
  /\ Goto(c, "aborting")
  /\ victims' = [victims EXCEPT ![c] = m_watched_ctx[changing[c]]]
  /\ UNCHANGED <<m_clients, server, watch_keys, abort_exec, in_transc, cached_cmds,
                 m_watched_ctx, g_transc_mutex, changing, writes, stored, told>>

\* (mutant of AbortOne: a context in MULTI is thought safe)
AbortOneOutside(c, d) ==
  /\ step[c] = "aborting" /\ d \in victims[c]
  /\ victims' = [victims EXCEPT ![c] = @ \ {d}]
  /\ abort_exec' = IF d \in in_transc THEN abort_exec ELSE abort_exec \cup {d}
  /\ UNCHANGED <<contextVars, watch_keys, in_transc, cached_cmds, m_watched_ctx,
                 g_transc_mutex, changing, writes, stored, told>>

AbortOne(c, d) ==
  /\ step[c] = "aborting" /\ d \in victims[c]
  /\ victims' = [victims EXCEPT ![c] = @ \ {d}]
  /\ abort_exec' = abort_exec \cup {d}
  /\ UNCHANGED <<contextVars, watch_keys, in_transc, cached_cmds, m_watched_ctx,
                 g_transc_mutex, changing, writes, stored, told>>

AbortDone(c) ==
  /\ step[c] = "aborting" /\ victims[c] = {}
  /\ Goto(c, IF g_transc_mutex = c THEN "exec" ELSE "idle")
  /\ told' = Noted(told, {changing[c]})
  /\ changing' = [changing EXCEPT ![c] = NULL]
  /\ UNCHANGED <<m_clients, server, watch_keys, abort_exec, in_transc, cached_cmds,
                 m_watched_ctx, g_transc_mutex, victims, writes, stored>>
-----------------------------------------------------------------------------
(***************************************************************************)
(* EXEC and DISCARD.  abort_exec is read before the mutex is taken.        *)
(***************************************************************************)
Exec(c) ==
  /\ Ready(c) /\ c \in in_transc \ abort_exec
  /\ Goto(c, "checked")
  /\ UNCHANGED <<m_clients, server, transcVars>>

ExecLock(c) ==
  /\ step[c] = "checked" /\ g_transc_mutex = NULL
  /\ g_transc_mutex' = c
  /\ Goto(c, "exec")
  /\ UNCHANGED <<m_clients, server, watch_keys, abort_exec, in_transc, cached_cmds,
                 m_watched_ctx, changing, victims, writes, stored, told>>

\* (mutant of ExecCall: the commands of a transaction announce nothing)
ExecCallSilent(c) ==
  /\ step[c] = "exec" /\ cached_cmds[c] # <<>>
  /\ cached_cmds' = [cached_cmds EXCEPT ![c] = Tail(@)]
  /\ stored' = Noted(stored, {Head(cached_cmds[c])})
  /\ UNCHANGED <<contextVars, watch_keys, abort_exec, in_transc, m_watched_ctx,
                 g_transc_mutex, changing, victims, writes, told>>

ExecCall(c) ==
  /\ step[c] = "exec" /\ cached_cmds[c] # <<>>
  /\ cached_cmds' = [cached_cmds EXCEPT ![c] = Tail(@)]
  /\ Store(c, Head(cached_cmds[c]))
  /\ UNCHANGED writes

\* The end of EXEC, EXEC of an aborted transaction, DISCARD.
Unwatch(c) ==
  /\ \/ step[c] = "exec" /\ cached_cmds[c] = <<>>
     \/ Ready(c) /\ c \in in_transc
  /\ UnwatchKeys(c)
  /\ Goto(c, "unwatched")
  /\ UNCHANGED <<m_clients, server, in_transc, cached_cmds, g_transc_mutex,
                 changing, victims, writes>>

\* (mutant of ClearTransc: the mutex is not given back)
ClearTranscLocked(c) ==
  /\ step[c] = "unwatched"
  /\ in_transc' = in_transc \ {c}
  /\ cached_cmds' = [cached_cmds EXCEPT ![c] = <<>>]
  /\ abort_exec' = abort_exec \ {c}
  /\ Goto(c, "idle")
  /\ UNCHANGED <<m_clients, server, watch_keys, m_watched_ctx, g_transc_mutex,
                 changing, victims, writes, stored, told>>

ClearTransc(c) ==
  /\ step[c] = "unwatched"
  /\ in_transc' = in_transc \ {c}
  /\ cached_cmds' = [cached_cmds EXCEPT ![c] = <<>>]
  /\ abort_exec' = abort_exec \ {c}
  /\ g_transc_mutex' = IF g_transc_mutex = c THEN NULL ELSE g_transc_mutex
  /\ Goto(c, "idle")
  /\ UNCHANGED <<m_clients, server, watch_keys, m_watched_ctx,
                 changing, victims, writes, stored, told>>
=============================================================================
