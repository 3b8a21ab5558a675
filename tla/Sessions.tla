------------------------------ MODULE Sessions ------------------------------
(***************************************************************************)
(* Client sessions: connections, transactions and subscriptions together,  *)
(* with the guards of Comms::Call and the teardown of a connection, which  *)
(* leaves the shared tables one after the other (FreeClientContext).       *)
(***************************************************************************)
EXTENDS Transaction, PubSub

CONSTANTS
  Transactors, Subscribers   \* bound: the clients that use either facility

vars == <<contextVars, transcVars, pubsubVars>>

Init == ContextInit /\ TranscInit /\ PubSubInit

\* Comms::Call: what a connection with subscriptions may not do.
Unrestricted(c) == c \notin pubsub

\* Comms::Call: SUBSCRIBE in a transaction would be queued.
SubscribeNow(c) == c \notin in_transc

Command(c) ==
  \/ /\ Unrestricted(c) /\ c \in Transactors
     /\ \/ \E ks \in SUBSET Keys \ {{}} : Watch(c, ks)
        \/ UnWatch(c) \/ Multi(c) \/ Exec(c) \/ Unwatch(c)
        \/ \E k \in Keys : Write(c, k) \/ Queue(c, k)
     /\ UNCHANGED pubsubVars
  \/ /\ SubscribeNow(c) /\ c \in Subscribers
     /\ \E t \in Topics : Subscribe(c, t) \/ UnSubscribe(c, t)
     /\ UNCHANGED transcVars
  \/ /\ Unrestricted(c) /\ SubscribeNow(c)
     /\ \E ch \in Channels : PublishMessage(c, ch)
     /\ UNCHANGED transcVars

\* The rest of a command that has begun.
Proceed(c) ==
  \/ /\ \/ AbortWatchKey(c) \/ AbortDone(c) \/ (\E d \in Clients : AbortOne(c, d))
        \/ ExecLock(c) \/ ExecCall(c) \/ ClearTransc(c)
        \/ step[c] = "exec" /\ Unwatch(c)
     /\ UNCHANGED pubsubVars
  \/ /\ PublishDone(c) \/ \E d \in Clients, t \in Topics : PublishTo(c, t, d)
     /\ UNCHANGED transcVars
-----------------------------------------------------------------------------
(***************************************************************************)
(* FreeClientContext: UnwatchKeys, UnsubscribeAll, PUnsubscribeAll, the    *)
(* table of clients.                                                       *)
(***************************************************************************)
ChannelClosed(c) ==
  /\ Ready(c)
  /\ UnwatchKeys(c)
  /\ Goto(c, "closing")
  /\ UNCHANGED <<m_clients, server, in_transc, cached_cmds, g_transc_mutex,
                 changing, victims, writes, pubsubVars>>

UnsubscribeAll(c) ==
  /\ step[c] = "closing"
  /\ \E t \in subscribed[c] : UnsubscribeChannel(c, t)
  /\ UNCHANGED <<contextVars, transcVars>>

\* The Context goes with its handler when the channel is deleted; nothing
\* reads it in between, so what it holds is given up here.
FreeClientContext(c) ==
  /\ step[c] = "closing" /\ subscribed[c] = {}
  /\ m_clients' = m_clients \ {c}
  /\ in_transc' = in_transc \ {c}
  /\ cached_cmds' = [cached_cmds EXCEPT ![c] = <<>>]
  /\ pubsub' = pubsub \ {c}
  /\ Goto(c, "closed")
  /\ UNCHANGED <<server, watch_keys, abort_exec, m_watched_ctx, g_transc_mutex,
                 changing, victims, writes, stored, told,
                 subscribed, m_pubsub_ctx, receivers, inbox, publishes>>

Teardown(c) ==
  \/ UnsubscribeAll(c) \/ FreeClientContext(c)
  \/ DeleteChannel(c) /\ UNCHANGED <<transcVars, pubsubVars>>

Deliver(c) == AsyncWriteMessage(c) /\ UNCHANGED transcVars
-----------------------------------------------------------------------------
Next ==
  /\ server = "up"
  /\ \E c \in Clients :
       \/ AddClientContext(c) /\ UNCHANGED <<transcVars, pubsubVars>>
       \/ Command(c) \/ Proceed(c) \/ Deliver(c)
       \/ ChannelClosed(c) \/ Teardown(c)

Spec == Init /\ [][Next]_vars

\* Workers go on with what they have begun and their loops run the callbacks;
\* clients need not send anything.
Fairness ==
  \A c \in Clients :
    /\ WF_vars(server = "up" /\ Proceed(c))
    /\ WF_vars(server = "up" /\ Teardown(c))
    /\ WF_vars(server = "up" /\ Deliver(c))

FairSpec == Spec /\ Fairness
-----------------------------------------------------------------------------
(***************************************************************************)
(* Properties.                                                             *)
(***************************************************************************)
Steps == {"new", "gone", "closed", "closing", "idle", "stored", "aborting", "checked", "exec",
          "unwatched", "publishing"}

TypeOK ==
  /\ m_clients \subseteq Clients
  /\ step \in [Clients -> Steps]
  /\ server \in {"up", "crashed"}
  /\ watch_keys \in [Clients -> SUBSET Keys]
  /\ abort_exec \subseteq Clients /\ in_transc \subseteq Clients
  /\ cached_cmds \in [Clients -> Seq(Keys)]
  /\ m_watched_ctx \in [Keys -> SUBSET Clients]
  /\ g_transc_mutex \in Clients \cup {NULL}
  /\ changing \in [Clients -> Keys \cup {NULL}]
  /\ victims \in [Clients -> SUBSET Clients]
  /\ stored \in [Clients -> SUBSET Keys] /\ told \in [Clients -> SUBSET Keys]
  /\ pubsub \subseteq Clients
  /\ subscribed \in [Clients -> SUBSET Topics]
  /\ m_pubsub_ctx \in [Topics -> SUBSET Clients]
  /\ receivers \in [Clients -> SUBSET (Topics \X Clients)]
  /\ inbox \in [Clients -> Seq(Topics)]

\* The shared tables and the sets kept in the contexts say the same, and a
\* context that is to be deleted is in none of them (Watch, UnwatchKeys,
\* SubscribeChannel, UnsubscribeChannel, FreeClientContext).
TablesAgree ==
  /\ \A c \in Clients : \A k \in Keys : c \in m_watched_ctx[k] <=> k \in watch_keys[c]
  /\ \A c \in Clients : \A t \in Topics : c \in m_pubsub_ctx[t] <=> t \in subscribed[c]
  /\ \A c \in Clients : step[c] \in {"closed", "gone"} =>
       c \notin m_clients /\ watch_keys[c] = {} /\ subscribed[c] = {}

\* The contexts that AbortWatchKey and PublishMessage have still to visit stay
\* in the table, with an open connection, until they are visited.
IteratorsValid ==
  \A c, d \in Clients :
    /\ d \in victims[c] => d \in m_watched_ctx[changing[c]] /\ d \in m_clients
    /\ \A t \in Topics : <<t, d>> \in receivers[c] => d \in m_pubsub_ctx[t] /\ d \in m_clients

\* A change of a watched key that was announced after the WATCH refuses the
\* EXEC (AbortWatchKey, Exec).
AnnouncedAborts == \A c \in Clients : told[c] # {} => c \in abort_exec

\* The refusal ends with the WATCH it belongs to: no later transaction of the
\* connection is refused for it (UnwatchKeys, ClearTransc).
NoStaleAbort == \A c \in abort_exec : watch_keys[c] # {}

\* An EXEC that has taken g_transc_mutex gives it back, whatever the others do
\* to m_watched_keys_lock, unless the process ends.
ExecEnds == \A c \in Clients : g_transc_mutex = c ~> g_transc_mutex # c \/ server = "crashed"

\* A change of a watched key in the store has refused the EXEC, or its write is
\* still on the way to do so: nothing else lets EXEC run on a changed key (Call,
\* FireKeyChangedEvent, AbortWatchKey, Exec).
ChangesReachWatchers ==
  \A c \in Clients : stored[c] # {} =>
    \/ c \in abort_exec
    \/ \E d \in Clients : step[d] \in {"stored", "aborting"} /\ changing[d] \in stored[c]
=============================================================================
