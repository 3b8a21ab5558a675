------------------------------ MODULE EventLoop -----------------------------
(***************************************************************************)
(* Posting work to an event loop (common/channel/channel_service.cpp): a   *)
(* lock-free queue with many producers and one consumer                    *)
(* (common/util/concurrent_queue.hpp) and a pipe whose bytes wake the loop *)
(* up (signal/soft_signal_channel.cpp).  Closed channels are put in a      *)
(* removal queue by the loop itself and deleted on a signal through the    *)
(* same pipe, or by a timer.                                               *)
(*                                                                         *)
(* Push is two steps, an exchange of m_head and a store to the previous    *)
(* node, between which Pop finds the queue empty.  The pipe does not block *)
(* and has room for PipeCapacity signals: one that finds it full is lost.  *)
(* A node is named by the task in it.                                      *)
(***************************************************************************)
EXTENDS Integers, Sequences, FiniteSets

CONSTANTS
  Tasks, Stub, NULL,   \* nodes: one per task and the one made by MPSCQueue()
  Poster,              \* Poster[t]: the thread that posts t
  Channels,
  PipeCapacity,
  MaxRemoves           \* bound: channels closed

ASSUME EventLoopAssumption ==
  /\ Stub \notin Tasks /\ NULL \notin Tasks \cup {Stub}
  /\ PipeCapacity \in Nat /\ MaxRemoves \in Nat

VARIABLES
  m_head, m_tail, next,
  pc,          \* pc[t]: how far AsyncIO is with t: "new", "exchanged",
               \* "linked", "posted"
  prev,        \* prev[t]: local variable of Push
  freed,       \* nodes deleted by Pop
  order,       \* tasks, in the order of their exchanges (history)
  ran,         \* tasks run, in order
  asnc_io, channel_remove,   \* signals of each kind in the pipe
  draining,    \* "yes" while OnSoftSignal pops tasks
  m_channel_table, m_remove_queue,
  removes      \* counter of the bound

queueVars == <<m_head, m_tail, next, pc, prev, freed, order>>
pipeVars == <<asnc_io, channel_remove>>
channelVars == <<m_channel_table, m_remove_queue, removes>>
vars == <<queueVars, ran, pipeVars, draining, channelVars>>

Nodes == Tasks \cup {Stub}

Init ==
  /\ m_head = Stub /\ m_tail = Stub
  /\ next = [n \in Nodes |-> NULL]
  /\ pc = [t \in Tasks |-> "new"]
  /\ prev = [t \in Tasks |-> NULL]
  /\ freed = {} /\ order = <<>> /\ ran = <<>>
  /\ asnc_io = 0 /\ channel_remove = 0
  /\ draining = "no"
  /\ m_channel_table = Channels /\ m_remove_queue = {} /\ removes = 0
-----------------------------------------------------------------------------
(***************************************************************************)
(* Posting: AsyncIO, Push, FireSoftSignal.                                 *)
(***************************************************************************)
Busy(t) == \E u \in Tasks \ {t} : Poster[u] = Poster[t] /\ pc[u] \in {"exchanged", "linked"}

Exchange(t) ==
  /\ pc[t] = "new" /\ ~Busy(t)
  /\ pc' = [pc EXCEPT ![t] = "exchanged"]
  /\ prev' = [prev EXCEPT ![t] = m_head]
  /\ m_head' = t
  /\ order' = Append(order, t)
  /\ UNCHANGED <<m_tail, next, freed, ran, pipeVars, draining, channelVars>>

\* (mutant of LinkNode: the queue is found empty by a push, which restarts it)
LinkNodeAtTail(t) ==
  /\ pc[t] = "exchanged"
  /\ next' = [next EXCEPT ![m_tail] = t]
  /\ pc' = [pc EXCEPT ![t] = "linked"]
  /\ UNCHANGED <<m_head, m_tail, prev, freed, order, ran, pipeVars, draining, channelVars>>

LinkNode(t) ==
  /\ pc[t] = "exchanged"
  /\ next' = [next EXCEPT ![prev[t]] = t]
  /\ pc' = [pc EXCEPT ![t] = "linked"]
  /\ UNCHANGED <<m_head, m_tail, prev, freed, order, ran, pipeVars, draining, channelVars>>

Room == asnc_io + channel_remove < PipeCapacity

\* (mutant of FireAsyncIO: no signal when a push is under way)
FireAsyncIOUnlessShared(t) ==
  /\ pc[t] = "linked"
  /\ pc' = [pc EXCEPT ![t] = "posted"]
  /\ asnc_io' = IF Room /\ m_head = t THEN asnc_io + 1 ELSE asnc_io
  /\ UNCHANGED <<m_head, m_tail, next, prev, freed, order, ran, channel_remove, draining,
                 channelVars>>

FireAsyncIO(t) ==
  /\ pc[t] = "linked"
  /\ pc' = [pc EXCEPT ![t] = "posted"]
  /\ asnc_io' = IF Room THEN asnc_io + 1 ELSE asnc_io
  /\ UNCHANGED <<m_head, m_tail, next, prev, freed, order, ran, channel_remove, draining,
                 channelVars>>
-----------------------------------------------------------------------------
(***************************************************************************)
(* The event loop: OnSoftSignal, Pop, RemoveChannel, VerifyRemoveQueue.    *)
(***************************************************************************)
OnAsyncIO ==
  /\ draining = "no" /\ asnc_io > 0
  /\ asnc_io' = asnc_io - 1
  /\ draining' = "yes"
  /\ UNCHANGED <<queueVars, ran, channel_remove, channelVars>>

\* (mutant of Pop: the node popped is the one deleted, the stub stays)
PopFreesNext ==
  /\ draining = "yes"
  /\ IF next[m_tail] # NULL
     THEN /\ next' = [next EXCEPT ![m_tail] = next[next[m_tail]]]
          /\ freed' = freed \cup {next[m_tail]}
          /\ ran' = Append(ran, next[m_tail])
          /\ UNCHANGED draining
     ELSE /\ draining' = "no"
          /\ UNCHANGED <<next, freed, ran>>
  /\ UNCHANGED <<m_head, m_tail, pc, prev, order, pipeVars, channelVars>>

Pop ==
  /\ draining = "yes"
  /\ IF next[m_tail] # NULL
     THEN /\ m_tail' = next[m_tail]
          /\ freed' = freed \cup {m_tail}
          /\ ran' = Append(ran, next[m_tail])
          /\ UNCHANGED draining
     ELSE /\ draining' = "no"
          /\ UNCHANGED <<m_tail, freed, ran>>
  /\ UNCHANGED <<m_head, next, pc, prev, order, pipeVars, channelVars>>

\* A channel is closed by a handler or by a task.
RemoveChannel(c) ==
  /\ c \in m_channel_table \ m_remove_queue
  /\ removes < MaxRemoves
  /\ removes' = removes + 1
  /\ m_remove_queue' = m_remove_queue \cup {c}
  /\ channel_remove' = IF Room THEN channel_remove + 1 ELSE channel_remove
  /\ UNCHANGED <<queueVars, ran, asnc_io, draining, m_channel_table>>

VerifyRemoveQueue ==
  /\ m_channel_table' = m_channel_table \ m_remove_queue
  /\ m_remove_queue' = {}
  /\ UNCHANGED <<queueVars, ran, asnc_io, draining, removes>>

OnChannelRemove ==
  /\ draining = "no" /\ channel_remove > 0
  /\ channel_remove' = channel_remove - 1
  /\ VerifyRemoveQueue

\* (mutant of Run: the timer does not look at the removal queue)
RunIdle == UNCHANGED vars

\* The timer of the service.
Run ==
  /\ draining = "no" /\ m_remove_queue # {}
  /\ VerifyRemoveQueue
  /\ UNCHANGED channel_remove
-----------------------------------------------------------------------------
Next ==
  \/ \E t \in Tasks : Exchange(t) \/ LinkNode(t) \/ FireAsyncIO(t)
  \/ OnAsyncIO \/ Pop
  \/ \E c \in Channels : RemoveChannel(c)
  \/ OnChannelRemove \/ Run

\* A thread that has begun a push is scheduled again; the loop reads its pipe,
\* drains the queue and runs its timer.
Fairness ==
  /\ \A t \in Tasks : WF_vars(LinkNode(t)) /\ WF_vars(FireAsyncIO(t))
  /\ WF_vars(OnAsyncIO) /\ WF_vars(Pop)
  /\ WF_vars(OnChannelRemove) /\ WF_vars(Run)

Spec == Init /\ [][Next]_vars

FairSpec == Spec /\ Fairness
-----------------------------------------------------------------------------
(***************************************************************************)
(* Properties.                                                             *)
(***************************************************************************)
TypeOK ==
  /\ m_head \in Nodes /\ m_tail \in Nodes
  /\ next \in [Nodes -> Nodes \cup {NULL}]
  /\ pc \in [Tasks -> {"new", "exchanged", "linked", "posted"}]
  /\ prev \in [Tasks -> Nodes \cup {NULL}]
  /\ freed \subseteq Nodes
  /\ order \in Seq(Tasks) /\ ran \in Seq(Nodes)
  /\ asnc_io \in Nat /\ channel_remove \in Nat
  /\ draining \in {"yes", "no"}
  /\ m_channel_table \subseteq Channels /\ m_remove_queue \subseteq Channels
  /\ removes \in Nat

\* A push stores into its predecessor after other pushes and pops may have
\* gone by: that node is never one that Pop has deleted (Push, Pop).
NoUseAfterFree ==
  /\ m_tail \notin freed
  /\ \A t \in Tasks : pc[t] = "exchanged" => prev[t] \notin freed

\* Work that the loop could pop never waits for a signal that will not come:
\* the loop is at it, a signal is in the pipe, or a thread is about to send
\* one, although Pop gives up on half-done pushes and signals may find the
\* pipe full (AsyncIO, FireSoftSignal, OnSoftSignal).
NoLostWakeup ==
  next[m_tail] # NULL =>
    draining = "yes" \/ asnc_io > 0 \/ \E t \in Tasks : pc[t] = "linked"

\* Closed channels are deleted even when their signal was lost.
Reclaimed == \A c \in Channels : c \in m_remove_queue ~> c \notin m_channel_table

\* A task is posted when its thread exchanges the head, and waits until Pop has
\* come to it.
Pending == SubSeq(order, Len(ran) + 1, Len(order))

Abstract == INSTANCE TaskQueue WITH pending <- Pending, ran <- ran

\* Tasks run once each in the order of their exchanges, and every task whose
\* exchange was done is run (TaskQueue).
Implements == Abstract!Spec
=============================================================================
