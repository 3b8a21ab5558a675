--------------------------- MODULE SessionsProofs ---------------------------
(***************************************************************************)
(* What Sessions promises, for every set of clients, assignment of clients *)
(* to workers, keys, channels and patterns.                                *)
(***************************************************************************)
EXTENDS Sessions, TLAPS

-----------------------------------------------------------------------------
(***************************************************************************)
(* The inductive invariant.                                                *)
(***************************************************************************)
\* The two halves of each table.
Tables ==
  /\ \A c \in Clients : \A k \in Keys : c \in m_watched_ctx[k] <=> k \in watch_keys[c]
  /\ \A c \in Clients : \A t \in Topics : c \in m_pubsub_ctx[t] <=> t \in subscribed[c]

\* Who is in the table of clients, and who is in no table of keys or topics.
Places ==
  \A c \in Clients :
    /\ step[c] \in {"closed", "gone"} => c \notin m_clients
    /\ step[c] \notin {"new", "closed", "gone"} => c \in m_clients
    /\ step[c] \in {"new", "unwatched", "closing", "closed", "gone"} => watch_keys[c] = {}
    /\ step[c] \in {"new", "closed", "gone"} => subscribed[c] = {}

\* A walk over a table is under way only while its lock is held, and what it
\* has left to visit is still there.
Walks ==
  \A c \in Clients :
    /\ step[c] \in {"stored", "aborting"} => changing[c] \in Keys
    /\ step[c] # "aborting" => victims[c] = {}
    /\ step[c] # "publishing" => receivers[c] = {}
    /\ \A d \in victims[c] : d \in m_watched_ctx[changing[c]]
    /\ \A t \in Topics, d \in Clients : <<t, d>> \in receivers[c] => d \in m_pubsub_ctx[t]

\* Whoever watches a key that is being announced is still to be visited, or
\* has been refused; an announcement outlives neither its WATCH nor its flag.
Announced ==
  /\ \A c, d \in Clients :
       step[c] = "aborting" /\ changing[c] \in watch_keys[d] => d \in victims[c] \cup abort_exec
  /\ \A c \in Clients : told[c] \subseteq watch_keys[c]
  /\ \A c \in Clients : told[c] # {} => c \in abort_exec
  /\ \A c \in abort_exec : watch_keys[c] # {}

\* What has changed in the store under a WATCH is announced, or being announced.
Changed ==
  \A c \in Clients : \A k \in stored[c] :
    /\ k \in watch_keys[c]
    /\ \/ k \in told[c]
       \/ \E d \in Clients : step[d] \in {"stored", "aborting"} /\ changing[d] = k

SInv == TypeOK /\ Tables /\ Places /\ Walks /\ Announced /\ Changed

-----------------------------------------------------------------------------
\* No connection is in any table at the start.
LEMMA InvInit == Init => SInv
BY DEF Init, ContextInit, TranscInit, PubSubInit, SInv, TypeOK, Steps, Tables, Places, Walks,
   Announced, Changed

\* A step of a command that has no change to announce leaves Changed alone.
LEMMA ChangedMoves ==
  ASSUME TypeOK, Changed, NEW c \in Clients, NEW place,
         step[c] \notin {"stored", "aborting"}, Goto(c, place),
         UNCHANGED <<watch_keys, changing, stored, told>>
  PROVE  Changed'
<1> SUFFICES ASSUME NEW x \in Clients, NEW k \in stored[x], k \notin told[x]
             PROVE  \E d \in Clients : step'[d] \in {"stored", "aborting"} /\ changing[d] = k
  BY DEF Changed
<1>1. PICK d \in Clients : step[d] \in {"stored", "aborting"} /\ changing[d] = k
  BY DEF Changed
<1>2. step'[d] = step[d]
  BY <1>1 DEF TypeOK, Goto
<1> QED
  BY <1>1, <1>2

\* A write that has reached the store is on the way to be announced.
LEMMA ChangedStores ==
  ASSUME TypeOK, Changed, NEW c \in Clients, NEW key \in Keys,
         step[c] \notin {"stored", "aborting"}, Store(c, key)
  PROVE  Changed'
<1> SUFFICES ASSUME NEW x \in Clients, NEW k \in stored'[x]
             PROVE  /\ k \in watch_keys[x]
                    /\ \/ k \in told[x]
                       \/ \E d \in Clients : step'[d] \in {"stored", "aborting"} /\ changing'[d] = k
  BY DEF Changed, Store
<1>1. CASE k \in stored[x]
  <2>1. CASE k \in told[x]
    BY <1>1, <2>1 DEF Changed
  <2>2. CASE k \notin told[x]
    <3>1. PICK d \in Clients : step[d] \in {"stored", "aborting"} /\ changing[d] = k
      BY <1>1, <2>2 DEF Changed
    <3>2. step'[d] = step[d] /\ changing'[d] = changing[d]
      BY <3>1 DEF TypeOK, Store, Goto
    <3> QED
      BY <1>1, <3>1, <3>2 DEF Changed
  <2> QED
    BY <2>1, <2>2
<1>2. CASE k \notin stored[x]
  <2>1. k = key /\ k \in watch_keys[x]
    BY <1>2 DEF Store, Noted, TypeOK
  <2>2. step'[c] = "stored" /\ changing'[c] = key
    BY DEF TypeOK, Store, Goto
  <2> QED
    BY <2>1, <2>2
<1> QED
  BY <1>1, <1>2

\* A new connection enters the table of clients and no other table.
LEMMA AddClientContextStep ==
  ASSUME SInv, NEW c \in Clients, AddClientContext(c), UNCHANGED <<transcVars, pubsubVars>>
  PROVE  SInv'
<1>1. TypeOK'
  BY DEF SInv, TypeOK, Steps, AddClientContext, Goto, transcVars, pubsubVars
<1>2. Tables'
  BY DEF SInv, TypeOK, Tables, AddClientContext, Goto, transcVars, pubsubVars
<1>3. Places'
  BY DEF SInv, TypeOK, Places, AddClientContext, Goto, transcVars, pubsubVars
<1>4. Walks'
  BY DEF SInv, TypeOK, Tables, Walks, AddClientContext, Goto, transcVars,
     pubsubVars
<1>5. Announced'
  BY DEF SInv, TypeOK, Tables, Places, Walks, Announced, AddClientContext,
     Goto, transcVars, pubsubVars
<1>6. Changed'
  BY ChangedMoves DEF SInv, AddClientContext, transcVars, pubsubVars
<1> QED
  BY <1>1, <1>2, <1>3, <1>4, <1>5, <1>6 DEF SInv

\* WATCH adds the key to both halves of its table at once, under the lock.
LEMMA WatchStep ==
  ASSUME SInv, NEW c \in Clients, NEW ks \in SUBSET Keys, Watch(c, ks), UNCHANGED pubsubVars
  PROVE  SInv'
<1>1. TypeOK'
  BY DEF SInv, TypeOK, Steps, Watch, Ready, WatchLockFree, contextVars,
     pubsubVars
<1>2. Tables'
  BY DEF SInv, TypeOK, Tables, Watch, Ready, WatchLockFree, contextVars,
     pubsubVars
<1>3. Places'
  BY DEF SInv, TypeOK, Places, Watch, Ready, WatchLockFree, contextVars,
     pubsubVars
<1>4. Walks'
  BY DEF SInv, TypeOK, Tables, Walks, Watch, Ready, WatchLockFree,
     contextVars, pubsubVars
<1>5. Announced'
  BY DEF SInv, TypeOK, Tables, Places, Walks, Announced, Watch, Ready,
     WatchLockFree, contextVars, pubsubVars
<1>6. Changed'
  BY DEF SInv, TypeOK, Places, Walks, Changed, Watch, Ready, WatchLockFree,
     contextVars, pubsubVars
<1> QED
  BY <1>1, <1>2, <1>3, <1>4, <1>5, <1>6 DEF SInv

\* UNWATCH leaves both halves; with the lock free no walk is under way.
LEMMA UnWatchStep ==
  ASSUME SInv, NEW c \in Clients, UnWatch(c), UNCHANGED pubsubVars
  PROVE  SInv'
<1>1. TypeOK'
  BY DEF SInv, TypeOK, Steps, UnWatch, UnwatchKeys, Ready, WatchLockFree,
     contextVars, pubsubVars
<1>2. Tables'
  BY DEF SInv, TypeOK, Tables, UnWatch, UnwatchKeys, Ready, WatchLockFree,
     contextVars, pubsubVars
<1>3. Places'
  BY DEF SInv, TypeOK, Places, UnWatch, UnwatchKeys, Ready, WatchLockFree,
     contextVars, pubsubVars
<1>4. Walks'
  BY DEF SInv, TypeOK, Tables, Walks, UnWatch, UnwatchKeys, Ready,
     WatchLockFree, contextVars, pubsubVars
<1>5. Announced'
  BY DEF SInv, TypeOK, Tables, Places, Walks, Announced, UnWatch, UnwatchKeys,
     Ready, WatchLockFree, contextVars, pubsubVars
<1>6. Changed'
  BY DEF SInv, TypeOK, Places, Walks, Changed, UnWatch, UnwatchKeys, Ready,
     WatchLockFree, contextVars, pubsubVars
<1> QED
  BY <1>1, <1>2, <1>3, <1>4, <1>5, <1>6 DEF SInv

\* MULTI touches only the connection's own context.
LEMMA MultiStep ==
  ASSUME SInv, NEW c \in Clients, Multi(c), UNCHANGED pubsubVars
  PROVE  SInv'
<1>1. TypeOK'
  BY DEF SInv, TypeOK, Steps, Multi, Ready, contextVars, pubsubVars
<1>2. Tables'
  BY DEF SInv, TypeOK, Tables, Multi, Ready, contextVars, pubsubVars
<1>3. Places'
  BY DEF SInv, TypeOK, Places, Multi, Ready, contextVars, pubsubVars
<1>4. Walks'
  BY DEF SInv, TypeOK, Tables, Walks, Multi, Ready, contextVars, pubsubVars
<1>5. Announced'
  BY DEF SInv, TypeOK, Tables, Places, Walks, Announced, Multi, Ready,
     contextVars, pubsubVars
<1>6. Changed'
  BY DEF SInv, TypeOK, Places, Walks, Changed, Multi, Ready, contextVars,
     pubsubVars
<1> QED
  BY <1>1, <1>2, <1>3, <1>4, <1>5, <1>6 DEF SInv

\* EXEC only moves on to its check.
LEMMA ExecStep ==
  ASSUME SInv, NEW c \in Clients, Exec(c), UNCHANGED pubsubVars
  PROVE  SInv'
<1>1. TypeOK'
  BY DEF SInv, TypeOK, Steps, Exec, Ready, Goto, transcVars, pubsubVars
<1>2. Tables'
  BY DEF SInv, TypeOK, Tables, Exec, Ready, Goto, transcVars, pubsubVars
<1>3. Places'
  BY DEF SInv, TypeOK, Places, Exec, Ready, Goto, transcVars, pubsubVars
<1>4. Walks'
  BY DEF SInv, TypeOK, Tables, Walks, Exec, Ready, Goto, transcVars,
     pubsubVars
<1>5. Announced'
  BY DEF SInv, TypeOK, Tables, Places, Walks, Announced, Exec, Ready, Goto,
     transcVars, pubsubVars
<1>6. Changed'
  BY ChangedMoves DEF SInv, Exec, Ready, transcVars, pubsubVars
<1> QED
  BY <1>1, <1>2, <1>3, <1>4, <1>5, <1>6 DEF SInv

\* UnwatchKeys inside EXEC and DISCARD, as in UNWATCH.
LEMMA UnwatchStep ==
  ASSUME SInv, NEW c \in Clients, Unwatch(c), UNCHANGED pubsubVars
  PROVE  SInv'
<1>1. TypeOK'
  BY DEF SInv, TypeOK, Steps, Unwatch, UnwatchKeys, WatchLockFree, Ready,
     Goto, pubsubVars
<1>2. Tables'
  BY DEF SInv, TypeOK, Tables, Unwatch, UnwatchKeys, WatchLockFree, Ready,
     Goto, pubsubVars
<1>3. Places'
  BY DEF SInv, TypeOK, Places, Unwatch, UnwatchKeys, WatchLockFree, Ready,
     Goto, pubsubVars
<1>4. Walks'
  BY DEF SInv, TypeOK, Tables, Walks, Unwatch, UnwatchKeys, WatchLockFree,
     Ready, Goto, pubsubVars
<1>5. Announced'
  BY DEF SInv, TypeOK, Tables, Places, Walks, Announced, Unwatch, UnwatchKeys,
     WatchLockFree, Ready, Goto, pubsubVars
<1>6. Changed'
  BY DEF SInv, TypeOK, Places, Walks, Changed, Unwatch, UnwatchKeys,
     WatchLockFree, Ready, Goto, pubsubVars
<1> QED
  BY <1>1, <1>2, <1>3, <1>4, <1>5, <1>6 DEF SInv

\* A write to the store comes before the announcement of it.
LEMMA WriteStep ==
  ASSUME SInv, NEW c \in Clients, NEW k \in Keys, Write(c, k), UNCHANGED pubsubVars
  PROVE  SInv'
<1>1. TypeOK'
  BY DEF SInv, TypeOK, Steps, Write, Store, Noted, Ready, Goto, pubsubVars
<1>2. Tables'
  BY DEF SInv, TypeOK, Tables, Write, Store, Noted, Ready, Goto, pubsubVars
<1>3. Places'
  BY DEF SInv, TypeOK, Places, Write, Store, Noted, Ready, Goto, pubsubVars
<1>4. Walks'
  BY DEF SInv, TypeOK, Tables, Walks, Write, Store, Noted, Ready, Goto,
     pubsubVars
<1>5. Announced'
  BY DEF SInv, TypeOK, Tables, Places, Walks, Announced, Write, Store, Noted,
     Ready, Goto, pubsubVars
<1>6. Changed'
  BY ChangedStores DEF SInv, Write, Ready
<1> QED
  BY <1>1, <1>2, <1>3, <1>4, <1>5, <1>6 DEF SInv

\* A queued command touches only the connection's own context.
LEMMA QueueStep ==
  ASSUME SInv, NEW c \in Clients, NEW k \in Keys, Queue(c, k), UNCHANGED pubsubVars
  PROVE  SInv'
<1>1. TypeOK'
  BY DEF SInv, TypeOK, Steps, Queue, Ready, contextVars, pubsubVars
<1>2. Tables'
  BY DEF SInv, TypeOK, Tables, Queue, Ready, contextVars, pubsubVars
<1>3. Places'
  BY DEF SInv, TypeOK, Places, Queue, Ready, contextVars, pubsubVars
<1>4. Walks'
  BY DEF SInv, TypeOK, Tables, Walks, Queue, Ready, contextVars, pubsubVars
<1>5. Announced'
  BY DEF SInv, TypeOK, Tables, Places, Walks, Announced, Queue, Ready,
     contextVars, pubsubVars
<1>6. Changed'
  BY DEF SInv, TypeOK, Places, Walks, Changed, Queue, Ready, contextVars,
     pubsubVars
<1> QED
  BY <1>1, <1>2, <1>3, <1>4, <1>5, <1>6 DEF SInv

\* SUBSCRIBE adds the topic to both halves of its table.
LEMMA SubscribeStep ==
  ASSUME SInv, NEW c \in Clients, NEW t \in Topics, Subscribe(c, t), UNCHANGED transcVars
  PROVE  SInv'
<1>1. TypeOK'
  BY DEF SInv, TypeOK, Steps, Subscribe, SubscribeChannel, PubSubLockFree,
     Ready, contextVars, transcVars
<1>2. Tables'
  BY DEF SInv, TypeOK, Tables, Subscribe, SubscribeChannel, PubSubLockFree,
     Ready, contextVars, transcVars
<1>3. Places'
  BY DEF SInv, TypeOK, Places, Subscribe, SubscribeChannel, PubSubLockFree,
     Ready, contextVars, transcVars
<1>4. Walks'
  BY DEF SInv, TypeOK, Tables, Walks, Subscribe, SubscribeChannel,
     PubSubLockFree, Ready, contextVars, transcVars
<1>5. Announced'
  BY DEF SInv, TypeOK, Tables, Places, Walks, Announced, Subscribe,
     SubscribeChannel, PubSubLockFree, Ready, contextVars, transcVars
<1>6. Changed'
  BY DEF SInv, TypeOK, Places, Walks, Changed, Subscribe, SubscribeChannel,
     PubSubLockFree, Ready, contextVars, transcVars
<1> QED
  BY <1>1, <1>2, <1>3, <1>4, <1>5, <1>6 DEF SInv

\* UNSUBSCRIBE leaves both halves; with the lock free no walk is under way.
LEMMA UnSubscribeStep ==
  ASSUME SInv, NEW c \in Clients, NEW t \in Topics, UnSubscribe(c, t), UNCHANGED transcVars
  PROVE  SInv'
<1>1. TypeOK'
  BY DEF SInv, TypeOK, Steps, UnSubscribe, UnsubscribeChannel, PubSubLockFree,
     Ready, contextVars, transcVars
<1>2. Tables'
  BY DEF SInv, TypeOK, Tables, UnSubscribe, UnsubscribeChannel,
     PubSubLockFree, Ready, contextVars, transcVars
<1>3. Places'
  BY DEF SInv, TypeOK, Places, UnSubscribe, UnsubscribeChannel,
     PubSubLockFree, Ready, contextVars, transcVars
<1>4. Walks'
  BY DEF SInv, TypeOK, Tables, Walks, UnSubscribe, UnsubscribeChannel,
     PubSubLockFree, Ready, contextVars, transcVars
<1>5. Announced'
  BY DEF SInv, TypeOK, Tables, Places, Walks, Announced, UnSubscribe,
     UnsubscribeChannel, PubSubLockFree, Ready, contextVars, transcVars
<1>6. Changed'
  BY DEF SInv, TypeOK, Places, Walks, Changed, UnSubscribe,
     UnsubscribeChannel, PubSubLockFree, Ready, contextVars, transcVars
<1> QED
  BY <1>1, <1>2, <1>3, <1>4, <1>5, <1>6 DEF SInv

\* The walk of PUBLISH begins with exactly the subscribers of its topics.
LEMMA PublishMessageStep ==
  ASSUME SInv, NEW c \in Clients, NEW ch \in Channels, PublishMessage(c, ch), UNCHANGED transcVars
  PROVE  SInv'
<1>1. TypeOK'
  BY PubSubAssumption DEF SInv, TypeOK, Steps, Topics, PublishMessage, Ready,
     Goto, transcVars
<1>2. Tables'
  BY DEF SInv, TypeOK, Tables, PublishMessage, Ready, Goto, transcVars
<1>3. Places'
  BY DEF SInv, TypeOK, Places, PublishMessage, Ready, Goto, transcVars
<1>4. Walks'
  BY DEF SInv, TypeOK, Tables, Walks, PublishMessage, Ready, Goto, transcVars
<1>5. Announced'
  BY DEF SInv, TypeOK, Tables, Places, Walks, Announced, PublishMessage,
     Ready, Goto, transcVars
<1>6. Changed'
  BY ChangedMoves DEF SInv, PublishMessage, Ready, transcVars
<1> QED
  BY <1>1, <1>2, <1>3, <1>4, <1>5, <1>6 DEF SInv

\* The walk of AbortWatchKey begins with exactly the watchers of the key.
LEMMA AbortWatchKeyStep ==
  ASSUME SInv, NEW c \in Clients, AbortWatchKey(c), UNCHANGED pubsubVars
  PROVE  SInv'
<1>1. TypeOK'
  BY DEF SInv, TypeOK, Steps, Walks, AbortWatchKey, Goto, pubsubVars
<1>2. Tables'
  BY DEF SInv, TypeOK, Tables, AbortWatchKey, Goto, pubsubVars
<1>3. Places'
  BY DEF SInv, TypeOK, Places, AbortWatchKey, Goto, pubsubVars
<1>4. Walks'
  BY DEF SInv, TypeOK, Tables, Walks, AbortWatchKey, Goto, pubsubVars
<1>5. Announced'
  BY DEF SInv, TypeOK, Tables, Places, Walks, Announced, AbortWatchKey, Goto,
     pubsubVars
<1>6. Changed'
  BY DEF SInv, TypeOK, Places, Walks, Changed, AbortWatchKey, Goto, pubsubVars
<1> QED
  BY <1>1, <1>2, <1>3, <1>4, <1>5, <1>6 DEF SInv

\* A finished walk has refused whoever watches the key: no one is left.
LEMMA AbortDoneStep ==
  ASSUME SInv, NEW c \in Clients, AbortDone(c), UNCHANGED pubsubVars
  PROVE  SInv'
<1>1. TypeOK'
  BY DEF SInv, TypeOK, Steps, AbortDone, Noted, Goto, pubsubVars
<1>2. Tables'
  BY DEF SInv, TypeOK, Tables, AbortDone, Noted, Goto, pubsubVars
<1>3. Places'
  BY DEF SInv, TypeOK, Places, AbortDone, Noted, Goto, pubsubVars
<1>4. Walks'
  BY DEF SInv, TypeOK, Tables, Walks, AbortDone, Noted, Goto, pubsubVars
<1>5. Announced'
  BY DEF SInv, TypeOK, Tables, Places, Walks, Announced, AbortDone, Noted,
     Goto, pubsubVars
<1>6. Changed'
  BY DEF SInv, TypeOK, Places, Walks, Changed, AbortDone, Noted, Goto,
     pubsubVars
<1> QED
  BY <1>1, <1>2, <1>3, <1>4, <1>5, <1>6 DEF SInv

\* A visited context moves from those to be visited to those refused.
LEMMA AbortOneStep ==
  ASSUME SInv, NEW c \in Clients, NEW d \in Clients, AbortOne(c, d), UNCHANGED pubsubVars
  PROVE  SInv'
<1>1. TypeOK'
  BY DEF SInv, TypeOK, Steps, AbortOne, contextVars, pubsubVars
<1>2. Tables'
  BY DEF SInv, TypeOK, Tables, AbortOne, contextVars, pubsubVars
<1>3. Places'
  BY DEF SInv, TypeOK, Places, AbortOne, contextVars, pubsubVars
<1>4. Walks'
  BY DEF SInv, TypeOK, Tables, Walks, AbortOne, contextVars, pubsubVars
<1>5. Announced'
  BY DEF SInv, TypeOK, Tables, Places, Walks, Announced, AbortOne,
     contextVars, pubsubVars
<1>6. Changed'
  BY DEF SInv, TypeOK, Places, Walks, Changed, AbortOne, contextVars,
     pubsubVars
<1> QED
  BY <1>1, <1>2, <1>3, <1>4, <1>5, <1>6 DEF SInv

\* EXEC takes the mutex.
LEMMA ExecLockStep ==
  ASSUME SInv, NEW c \in Clients, ExecLock(c), UNCHANGED pubsubVars
  PROVE  SInv'
<1>1. TypeOK'
  BY DEF SInv, TypeOK, Steps, ExecLock, Goto, pubsubVars
<1>2. Tables'
  BY DEF SInv, TypeOK, Tables, ExecLock, Goto, pubsubVars
<1>3. Places'
  BY DEF SInv, TypeOK, Places, ExecLock, Goto, pubsubVars
<1>4. Walks'
  BY DEF SInv, TypeOK, Tables, Walks, ExecLock, Goto, pubsubVars
<1>5. Announced'
  BY DEF SInv, TypeOK, Tables, Places, Walks, Announced, ExecLock, Goto,
     pubsubVars
<1>6. Changed'
  BY ChangedMoves DEF SInv, ExecLock, pubsubVars
<1> QED
  BY <1>1, <1>2, <1>3, <1>4, <1>5, <1>6 DEF SInv

\* A command of the transaction, which is stored and not yet announced.
LEMMA ExecCallStep ==
  ASSUME SInv, NEW c \in Clients, ExecCall(c), UNCHANGED pubsubVars
  PROVE  SInv'
<1>1. TypeOK'
  BY DEF SInv, TypeOK, Steps, ExecCall, Store, Noted, Goto, pubsubVars
<1>2. Tables'
  BY DEF SInv, TypeOK, Tables, ExecCall, Store, Noted, Goto, pubsubVars
<1>3. Places'
  BY DEF SInv, TypeOK, Places, ExecCall, Store, Noted, Goto, pubsubVars
<1>4. Walks'
  BY DEF SInv, TypeOK, Tables, Walks, ExecCall, Store, Noted, Goto, pubsubVars
<1>5. Announced'
  BY DEF SInv, TypeOK, Tables, Places, Walks, Announced, ExecCall, Store,
     Noted, Goto, pubsubVars
<1>6. Changed'
  <2>1. Head(cached_cmds[c]) \in Keys
    BY DEF SInv, TypeOK, ExecCall
  <2>2. Store(c, Head(cached_cmds[c])) /\ step[c] \notin {"stored", "aborting"}
    BY DEF ExecCall
  <2> QED
    BY <2>1, <2>2, ChangedStores DEF SInv
<1> QED
  BY <1>1, <1>2, <1>3, <1>4, <1>5, <1>6 DEF SInv

\* The end of EXEC: its watches were dropped before.
LEMMA ClearTranscStep ==
  ASSUME SInv, NEW c \in Clients, ClearTransc(c), UNCHANGED pubsubVars
  PROVE  SInv'
<1>1. TypeOK'
  BY DEF SInv, TypeOK, Steps, ClearTransc, Goto, pubsubVars
<1>2. Tables'
  BY DEF SInv, TypeOK, Tables, ClearTransc, Goto, pubsubVars
<1>3. Places'
  BY DEF SInv, TypeOK, Places, ClearTransc, Goto, pubsubVars
<1>4. Walks'
  BY DEF SInv, TypeOK, Tables, Walks, ClearTransc, Goto, pubsubVars
<1>5. Announced'
  BY DEF SInv, TypeOK, Tables, Places, Walks, Announced, ClearTransc, Goto,
     pubsubVars
<1>6. Changed'
  BY ChangedMoves DEF SInv, ClearTransc, pubsubVars
<1> QED
  BY <1>1, <1>2, <1>3, <1>4, <1>5, <1>6 DEF SInv

\* A finished walk has no one left to visit.
LEMMA PublishDoneStep ==
  ASSUME SInv, NEW c \in Clients, PublishDone(c), UNCHANGED transcVars
  PROVE  SInv'
<1>1. TypeOK'
  BY DEF SInv, TypeOK, Steps, PublishDone, Goto, transcVars, pubsubVars
<1>2. Tables'
  BY DEF SInv, TypeOK, Tables, PublishDone, Goto, transcVars, pubsubVars
<1>3. Places'
  BY DEF SInv, TypeOK, Places, PublishDone, Goto, transcVars, pubsubVars
<1>4. Walks'
  BY DEF SInv, TypeOK, Tables, Walks, PublishDone, Goto, transcVars,
     pubsubVars
<1>5. Announced'
  BY DEF SInv, TypeOK, Tables, Places, Walks, Announced, PublishDone, Goto,
     transcVars, pubsubVars
<1>6. Changed'
  BY ChangedMoves DEF SInv, PublishDone, transcVars, pubsubVars
<1> QED
  BY <1>1, <1>2, <1>3, <1>4, <1>5, <1>6 DEF SInv

\* A visited subscriber leaves the walk.
LEMMA PublishToStep ==
  ASSUME SInv, NEW c \in Clients, NEW d \in Clients, NEW t \in Topics, PublishTo(c, t, d), UNCHANGED transcVars
  PROVE  SInv'
<1>1. TypeOK'
  BY DEF SInv, TypeOK, Steps, PublishTo, contextVars, transcVars
<1>2. Tables'
  BY DEF SInv, TypeOK, Tables, PublishTo, contextVars, transcVars
<1>3. Places'
  BY DEF SInv, TypeOK, Places, PublishTo, contextVars, transcVars
<1>4. Walks'
  BY DEF SInv, TypeOK, Tables, Walks, PublishTo, contextVars, transcVars
<1>5. Announced'
  BY DEF SInv, TypeOK, Tables, Places, Walks, Announced, PublishTo,
     contextVars, transcVars
<1>6. Changed'
  BY DEF SInv, TypeOK, Places, Walks, Changed, PublishTo, contextVars,
     transcVars
<1> QED
  BY <1>1, <1>2, <1>3, <1>4, <1>5, <1>6 DEF SInv

\* The subscriber's loop touches only its own inbox.
LEMMA AsyncWriteMessageStep ==
  ASSUME SInv, NEW c \in Clients, AsyncWriteMessage(c), UNCHANGED transcVars
  PROVE  SInv'
<1>1. TypeOK'
  BY DEF SInv, TypeOK, Steps, AsyncWriteMessage, transcVars
<1>2. Tables'
  BY DEF SInv, TypeOK, Tables, AsyncWriteMessage, transcVars
<1>3. Places'
  BY DEF SInv, TypeOK, Places, AsyncWriteMessage, transcVars
<1>4. Walks'
  BY DEF SInv, TypeOK, Tables, Walks, AsyncWriteMessage, transcVars
<1>5. Announced'
  BY DEF SInv, TypeOK, Tables, Places, Walks, Announced, AsyncWriteMessage,
     transcVars
<1>6. Changed'
  BY DEF SInv, TypeOK, Places, Walks, Changed, AsyncWriteMessage, transcVars
<1> QED
  BY <1>1, <1>2, <1>3, <1>4, <1>5, <1>6 DEF SInv

\* A closing connection leaves the watch table first.
LEMMA ChannelClosedStep ==
  ASSUME SInv, NEW c \in Clients, ChannelClosed(c)
  PROVE  SInv'
<1>1. TypeOK'
  BY DEF SInv, TypeOK, Steps, ChannelClosed, UnwatchKeys, WatchLockFree,
     Ready, Goto, pubsubVars
<1>2. Tables'
  BY DEF SInv, TypeOK, Tables, ChannelClosed, UnwatchKeys, WatchLockFree,
     Ready, Goto, pubsubVars
<1>3. Places'
  BY DEF SInv, TypeOK, Places, ChannelClosed, UnwatchKeys, WatchLockFree,
     Ready, Goto, pubsubVars
<1>4. Walks'
  BY DEF SInv, TypeOK, Tables, Walks, ChannelClosed, UnwatchKeys,
     WatchLockFree, Ready, Goto, pubsubVars
<1>5. Announced'
  BY DEF SInv, TypeOK, Tables, Places, Walks, Announced, ChannelClosed,
     UnwatchKeys, WatchLockFree, Ready, Goto, pubsubVars
<1>6. Changed'
  BY DEF SInv, TypeOK, Places, Walks, Changed, ChannelClosed, UnwatchKeys,
     WatchLockFree, Ready, Goto, pubsubVars
<1> QED
  BY <1>1, <1>2, <1>3, <1>4, <1>5, <1>6 DEF SInv

\* It leaves the topics one at a time, in both halves.
LEMMA UnsubscribeAllStep ==
  ASSUME SInv, NEW c \in Clients, UnsubscribeAll(c)
  PROVE  SInv'
<1>1. TypeOK'
  BY DEF SInv, TypeOK, Steps, UnsubscribeAll, UnsubscribeChannel,
     PubSubLockFree, contextVars, transcVars
<1>2. Tables'
  BY DEF SInv, TypeOK, Tables, UnsubscribeAll, UnsubscribeChannel,
     PubSubLockFree, contextVars, transcVars
<1>3. Places'
  BY DEF SInv, TypeOK, Places, UnsubscribeAll, UnsubscribeChannel,
     PubSubLockFree, contextVars, transcVars
<1>4. Walks'
  BY DEF SInv, TypeOK, Tables, Walks, UnsubscribeAll, UnsubscribeChannel,
     PubSubLockFree, contextVars, transcVars
<1>5. Announced'
  BY DEF SInv, TypeOK, Tables, Places, Walks, Announced, UnsubscribeAll,
     UnsubscribeChannel, PubSubLockFree, contextVars, transcVars
<1>6. Changed'
  BY DEF SInv, TypeOK, Places, Walks, Changed, UnsubscribeAll,
     UnsubscribeChannel, PubSubLockFree, contextVars, transcVars
<1> QED
  BY <1>1, <1>2, <1>3, <1>4, <1>5, <1>6 DEF SInv

\* It leaves the table of clients when it is in no other.
LEMMA FreeClientContextStep ==
  ASSUME SInv, NEW c \in Clients, FreeClientContext(c)
  PROVE  SInv'
<1>1. TypeOK'
  BY DEF SInv, TypeOK, Steps, FreeClientContext, Goto
<1>2. Tables'
  BY DEF SInv, TypeOK, Tables, FreeClientContext, Goto
<1>3. Places'
  BY DEF SInv, TypeOK, Places, FreeClientContext, Goto
<1>4. Walks'
  BY DEF SInv, TypeOK, Tables, Walks, FreeClientContext, Goto
<1>5. Announced'
  BY DEF SInv, TypeOK, Tables, Places, Walks, Announced, FreeClientContext,
     Goto
<1>6. Changed'
  BY ChangedMoves DEF SInv, FreeClientContext
<1> QED
  BY <1>1, <1>2, <1>3, <1>4, <1>5, <1>6 DEF SInv

\* The channel is deleted when its context is in no table.
LEMMA DeleteChannelStep ==
  ASSUME SInv, NEW c \in Clients, DeleteChannel(c), UNCHANGED <<transcVars, pubsubVars>>
  PROVE  SInv'
<1>1. TypeOK'
  BY DEF SInv, TypeOK, Steps, DeleteChannel, Goto, transcVars, pubsubVars
<1>2. Tables'
  BY DEF SInv, TypeOK, Tables, DeleteChannel, Goto, transcVars, pubsubVars
<1>3. Places'
  BY DEF SInv, TypeOK, Places, DeleteChannel, Goto, transcVars, pubsubVars
<1>4. Walks'
  BY DEF SInv, TypeOK, Tables, Walks, DeleteChannel, Goto, transcVars,
     pubsubVars
<1>5. Announced'
  BY DEF SInv, TypeOK, Tables, Places, Walks, Announced, DeleteChannel, Goto,
     transcVars, pubsubVars
<1>6. Changed'
  BY ChangedMoves DEF SInv, DeleteChannel, transcVars, pubsubVars
<1> QED
  BY <1>1, <1>2, <1>3, <1>4, <1>5, <1>6 DEF SInv

\* Every step of Sessions preserves the invariant.
LEMMA Inductive == SInv /\ [Next]_vars => SInv'
<1> SUFFICES ASSUME SInv, [Next]_vars PROVE SInv'
  OBVIOUS
<1>1. CASE UNCHANGED vars
  BY <1>1 DEF SInv, TypeOK, Tables, Places, Walks, Announced, Changed, vars, contextVars, transcVars,
     pubsubVars
<1>2. ASSUME NEW c \in Clients, AddClientContext(c) /\ UNCHANGED <<transcVars, pubsubVars>>
      PROVE  SInv'
  BY <1>2, AddClientContextStep
<1>3. ASSUME NEW c \in Clients, Command(c) PROVE SInv'
  <2>1. CASE /\ \/ \E ks \in SUBSET Keys \ {{}} : Watch(c, ks)
                \/ UnWatch(c) \/ Multi(c) \/ Exec(c) \/ Unwatch(c)
                \/ \E k \in Keys : Write(c, k) \/ Queue(c, k)
             /\ UNCHANGED pubsubVars
    BY <2>1, WatchStep, UnWatchStep, MultiStep, ExecStep, UnwatchStep, WriteStep, QueueStep
  <2>2. CASE /\ \E t \in Topics : Subscribe(c, t) \/ UnSubscribe(c, t)
             /\ UNCHANGED transcVars
    BY <2>2, SubscribeStep, UnSubscribeStep
  <2>3. CASE (\E ch \in Channels : PublishMessage(c, ch)) /\ UNCHANGED transcVars
    BY <2>3, PublishMessageStep
  <2> QED
    BY <1>3, <2>1, <2>2, <2>3 DEF Command
<1>4. ASSUME NEW c \in Clients, Proceed(c) PROVE SInv'
  <2>1. CASE /\ \/ AbortWatchKey(c) \/ AbortDone(c) \/ (\E d \in Clients : AbortOne(c, d))
                \/ ExecLock(c) \/ ExecCall(c) \/ ClearTransc(c) \/ Unwatch(c)
             /\ UNCHANGED pubsubVars
    BY <2>1, AbortWatchKeyStep, AbortDoneStep, AbortOneStep, ExecLockStep, ExecCallStep,
       ClearTranscStep, UnwatchStep
  <2>2. CASE /\ PublishDone(c) \/ \E d \in Clients, t \in Topics : PublishTo(c, t, d)
             /\ UNCHANGED transcVars
    BY <2>2, PublishDoneStep, PublishToStep
  <2> QED
    BY <1>4, <2>1, <2>2 DEF Proceed
<1>5. ASSUME NEW c \in Clients, Deliver(c) \/ ChannelClosed(c) \/ Teardown(c) PROVE SInv'
  BY <1>5, AsyncWriteMessageStep, ChannelClosedStep, UnsubscribeAllStep, FreeClientContextStep,
     DeleteChannelStep DEF Deliver, Teardown
<1> QED
  BY <1>1, <1>2, <1>3, <1>4, <1>5 DEF Next

-----------------------------------------------------------------------------
\* The inductive invariant holds of every behaviour: the tables, the walks
\* over them and the flags they set stay in step whatever the connections do.
THEOREM InvHolds == Spec => []SInv
BY InvInit, Inductive, PTL DEF Spec

\* Every variable keeps its type.
THEOREM TypeCorrect == Spec => []TypeOK
BY InvHolds, PTL DEF SInv

\* The shared tables of watchers and subscribers agree with the contexts, and
\* a context about to be deleted is in none (FreeClientContext).
THEOREM TablesAlwaysAgree == Spec => []TablesAgree
<1>1. SInv => TablesAgree
  BY DEF SInv, Tables, Places, TablesAgree
<1> QED
  BY <1>1, InvHolds, PTL

\* What AbortWatchKey and PublishMessage have still to visit stays in its table
\* with its connection open: a context leaves the watch table and the topics
\* before the table of clients, each under the lock the walk holds.
THEOREM IteratorsStayValid == Spec => []IteratorsValid
<1>1. ASSUME SInv PROVE IteratorsValid
  <2> SUFFICES ASSUME NEW c \in Clients, NEW d \in Clients
               PROVE  /\ d \in victims[c] => d \in m_watched_ctx[changing[c]] /\ d \in m_clients
                      /\ \A t \in Topics : <<t, d>> \in receivers[c] =>
                           d \in m_pubsub_ctx[t] /\ d \in m_clients
    BY DEF IteratorsValid
  <2>1. ASSUME d \in victims[c] PROVE d \in m_watched_ctx[changing[c]] /\ d \in m_clients
    <3>1. changing[c] \in Keys /\ d \in m_watched_ctx[changing[c]]
      BY <1>1, <2>1 DEF SInv, Walks
    <3>2. watch_keys[d] # {}
      BY <1>1, <3>1 DEF SInv, Tables
    <3> QED
      BY <1>1, <3>1, <3>2 DEF SInv, Places
  <2>2. ASSUME NEW t \in Topics, <<t, d>> \in receivers[c]
        PROVE  d \in m_pubsub_ctx[t] /\ d \in m_clients
    <3>1. d \in m_pubsub_ctx[t]
      BY <1>1, <2>2 DEF SInv, Walks
    <3>2. subscribed[d] # {}
      BY <1>1, <3>1 DEF SInv, Tables
    <3> QED
      BY <1>1, <3>1, <3>2 DEF SInv, Places
  <2> QED
    BY <2>1, <2>2
<1> QED
  BY <1>1, InvHolds, PTL

\* A change of a watched key announced after the WATCH refuses the EXEC.
THEOREM AnnouncedAlwaysAborts == Spec => []AnnouncedAborts
<1>1. SInv => AnnouncedAborts
  BY DEF SInv, Announced, AnnouncedAborts
<1> QED
  BY <1>1, InvHolds, PTL

\* A refusal never outlives the WATCH it belongs to.
THEOREM NeverStaleAbort == Spec => []NoStaleAbort
<1>1. SInv => NoStaleAbort
  BY DEF SInv, Announced, NoStaleAbort
<1> QED
  BY <1>1, InvHolds, PTL

\* A change of a watched key has refused the EXEC, or its write is under way.
THEOREM ChangesAlwaysReach == Spec => []ChangesReachWatchers
<1>1. SInv => ChangesReachWatchers
  BY DEF SInv, Announced, Changed, ChangesReachWatchers
<1> QED
  BY <1>1, InvHolds, PTL
=============================================================================
