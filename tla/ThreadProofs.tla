----------------------------- MODULE ThreadProofs ----------------------------
(***************************************************************************)
(* Proofs about what the threads of the server share: the queue of an      *)
(* event loop (EventLoop), for any number of tasks, threads and channels,  *)
(* and the read-write spin lock (SpinRWLock), for every finite set of      *)
(* threads that its counts can hold.                                       *)
(*                                                                         *)
(* Shape describes the linked list of the queue: what a push under way may *)
(* still change, and why Pop never walks back into nodes it has deleted.   *)
(***************************************************************************)
EXTENDS EventLoop, SpinRWLock, Timer, SequenceTheorems, FiniteSetTheorems,
        WellFoundedInduction, TLAPS

Exchanged(t) == pc[t] = "exchanged"
Pushing(t) == pc[t] \in {"new", "exchanged"}

\* The list ends in m_head, and every push under way has an end of its own.
Ends ==
  /\ next[m_head] = NULL
  /\ \A t \in Tasks : Exchanged(t) =>
       prev[t] \in Nodes /\ next[prev[t]] = NULL /\ prev[t] # m_head
  /\ \A t, u \in Tasks : Exchanged(t) /\ Exchanged(u) /\ prev[t] = prev[u] => t = u

\* A node that is not in the list yet.
Fresh ==
  /\ \A t \in Tasks : Pushing(t) =>
       t # m_tail /\ t \notin freed /\ \A n \in Nodes : next[n] # t
  /\ \A t \in Tasks : pc[t] = "new" =>
       t # m_head /\ next[t] = NULL /\ \A u \in Tasks : Exchanged(u) => prev[u] # t

\* Only deleted nodes lead to m_tail or to a deleted node.
Behind ==
  /\ m_tail \notin freed
  /\ \A n \in freed : next[n] # NULL
  /\ \A n \in Nodes : next[n] = m_tail \/ next[n] \in freed => n \in freed
  /\ \A m, n \in Nodes : next[m] = next[n] /\ next[m] # NULL => m = n

Shape == Ends /\ Fresh /\ Behind

\* Signals of closed channels never fill the pipe on their own.
RoomLeft ==
  /\ MaxRemoves < PipeCapacity
  /\ channel_remove <= removes /\ removes <= MaxRemoves
-----------------------------------------------------------------------------
LEMMA InitTypeOK == Init => TypeOK
  BY EventLoopAssumption DEF Init, TypeOK, Nodes

LEMMA NextTypeOK == TypeOK /\ [Next]_vars => TypeOK'
<1> SUFFICES ASSUME TypeOK, [Next]_vars PROVE TypeOK'
  OBVIOUS
<1> USE EventLoopAssumption DEF TypeOK, Nodes, queueVars, pipeVars, channelVars
<1>1. ASSUME NEW t \in Tasks, Exchange(t) PROVE TypeOK'
  BY <1>1 DEF Exchange
<1>2. ASSUME NEW t \in Tasks, LinkNode(t) PROVE TypeOK'
  BY <1>2 DEF LinkNode
<1>3. ASSUME NEW t \in Tasks, FireAsyncIO(t) PROVE TypeOK'
  BY <1>3 DEF FireAsyncIO
<1>4. CASE OnAsyncIO
  BY <1>4 DEF OnAsyncIO
<1>5. CASE Pop
  <2>1. CASE next[m_tail] # NULL
    <3>1. PICK n \in Tasks \cup {Stub} : n = next[m_tail]
      BY <2>1
    <3>2. Append(ran, n) \in Seq(Tasks \cup {Stub})
      OBVIOUS
    <3>3. m_tail' = n /\ ran' = Append(ran, n) /\ freed' \subseteq Tasks \cup {Stub}
      BY <1>5, <2>1, <3>1 DEF Pop
    <3> QED
      BY <1>5, <3>2, <3>3 DEF Pop
  <2>2. CASE next[m_tail] = NULL
    BY <1>5, <2>2 DEF Pop
  <2> QED
    BY <2>1, <2>2
<1>6. ASSUME NEW c \in Channels, RemoveChannel(c) PROVE TypeOK'
  BY <1>6 DEF RemoveChannel
<1>7. CASE OnChannelRemove
  BY <1>7 DEF OnChannelRemove, VerifyRemoveQueue
<1>8. CASE Run
  BY <1>8 DEF Run, VerifyRemoveQueue
<1>9. CASE UNCHANGED vars
  BY <1>9 DEF vars
<1> QED
  BY <1>1, <1>2, <1>3, <1>4, <1>5, <1>6, <1>7, <1>8, <1>9 DEF Next

\* The variables of the queue and of the loop keep their types, whatever the
\* interleaving of AsyncIO, OnSoftSignal and RemoveChannel.
THEOREM TypeCorrect == Spec => []TypeOK
  BY InitTypeOK, NextTypeOK, PTL DEF Spec
-----------------------------------------------------------------------------
LEMMA InitShape == Init => Shape
  BY EventLoopAssumption DEF Init, Shape, Ends, Fresh, Behind, Exchanged, Pushing, Nodes

LEMMA ExchangeShape ==
  ASSUME TypeOK, Shape, NEW t \in Tasks, Exchange(t) PROVE Shape'
<1> USE EventLoopAssumption DEF TypeOK, Nodes, Shape, Exchange, Exchanged, Pushing
<1>1. Ends'
  BY DEF Ends, Fresh
<1>2. Fresh'
  BY DEF Ends, Fresh
<1>3. Behind'
  BY DEF Behind
<1> QED
  BY <1>1, <1>2, <1>3

LEMMA LinkNodeShape ==
  ASSUME TypeOK, Shape, NEW t \in Tasks, LinkNode(t) PROVE Shape'
<1> USE EventLoopAssumption DEF TypeOK, Nodes, Shape, LinkNode, Exchanged, Pushing
<1>1. Ends'
  BY DEF Ends
<1>2. Fresh'
  BY DEF Ends, Fresh
<1>3. Behind'
  BY DEF Ends, Fresh, Behind
<1> QED
  BY <1>1, <1>2, <1>3

LEMMA PopShape == ASSUME TypeOK, Shape, Pop PROVE Shape'
<1> USE EventLoopAssumption DEF TypeOK, Nodes, Shape, Pop, Exchanged, Pushing
<1>1. Ends'
  BY DEF Ends
<1>2. Fresh'
  BY DEF Fresh
<1>3. Behind'
  BY DEF Behind
<1> QED
  BY <1>1, <1>2, <1>3

LEMMA NextShape == TypeOK /\ Shape /\ [Next]_vars => Shape'
<1> SUFFICES ASSUME TypeOK, Shape, [Next]_vars PROVE Shape'
  OBVIOUS
<1>1. ASSUME NEW t \in Tasks, Exchange(t) PROVE Shape'
  BY <1>1, ExchangeShape
<1>2. ASSUME NEW t \in Tasks, LinkNode(t) PROVE Shape'
  BY <1>2, LinkNodeShape
<1>3. CASE Pop
  BY <1>3, PopShape
<1>4. ASSUME NEW t \in Tasks, FireAsyncIO(t) PROVE Shape'
  BY <1>4 DEF FireAsyncIO, TypeOK, Shape, Ends, Fresh, Behind, Exchanged, Pushing
<1>5. ASSUME UNCHANGED queueVars PROVE Shape'
  BY <1>5 DEF queueVars, Shape, Ends, Fresh, Behind, Exchanged, Pushing
<1>6. CASE \/ OnAsyncIO \/ OnChannelRemove \/ Run \/ UNCHANGED vars
           \/ \E c \in Channels : RemoveChannel(c)
  BY <1>5, <1>6 DEF OnAsyncIO, OnChannelRemove, Run, VerifyRemoveQueue, RemoveChannel, vars
<1> QED
  BY <1>1, <1>2, <1>3, <1>4, <1>6 DEF Next

\* No push stores into a node that Pop has deleted, and Pop reads none: for
\* any number of threads in the middle of Push (concurrent_queue.hpp).
THEOREM QueueMemorySafe == Spec => []NoUseAfterFree
<1>1. Init => TypeOK /\ Shape
  BY InitTypeOK, InitShape
<1>2. TypeOK /\ Shape /\ [Next]_vars => TypeOK' /\ Shape'
  BY NextTypeOK, NextShape
<1>3. TypeOK /\ Shape => NoUseAfterFree
  BY DEF TypeOK, Shape, Ends, Behind, Exchanged, NoUseAfterFree
<1> QED
  BY <1>1, <1>2, <1>3, PTL DEF Spec
-----------------------------------------------------------------------------
LEMMA NextRoomLeft == TypeOK /\ RoomLeft /\ [Next]_vars => RoomLeft'
<1> SUFFICES ASSUME TypeOK, RoomLeft, [Next]_vars PROVE RoomLeft'
  OBVIOUS
<1> USE EventLoopAssumption DEF TypeOK, RoomLeft, channelVars, pipeVars
<1>1. ASSUME NEW c \in Channels, RemoveChannel(c) PROVE RoomLeft'
  BY <1>1 DEF RemoveChannel
<1>2. CASE OnChannelRemove
  BY <1>2 DEF OnChannelRemove, VerifyRemoveQueue
<1>3. ASSUME UNCHANGED <<channel_remove, removes>> PROVE RoomLeft'
  BY <1>3
<1>4. ASSUME NEW t \in Tasks, Exchange(t) \/ LinkNode(t) \/ FireAsyncIO(t) PROVE RoomLeft'
  BY <1>3, <1>4 DEF Exchange, LinkNode, FireAsyncIO
<1>5. CASE OnAsyncIO \/ Pop \/ Run \/ UNCHANGED vars
  BY <1>3, <1>5 DEF OnAsyncIO, Pop, Run, VerifyRemoveQueue, vars
<1> QED
  BY <1>1, <1>2, <1>4, <1>5 DEF Next

LEMMA NextWakeup ==
  TypeOK /\ Shape /\ RoomLeft /\ NoLostWakeup /\ [Next]_vars => NoLostWakeup'
<1> SUFFICES ASSUME TypeOK, Shape, RoomLeft, NoLostWakeup, [Next]_vars PROVE NoLostWakeup'
  OBVIOUS
<1> USE EventLoopAssumption DEF TypeOK, NoLostWakeup
<1>1. ASSUME NEW t \in Tasks, Exchange(t) PROVE NoLostWakeup'
  BY <1>1 DEF Exchange, pipeVars
<1>2. ASSUME NEW t \in Tasks, LinkNode(t) PROVE NoLostWakeup'
  BY <1>2 DEF LinkNode, pipeVars
<1>3. ASSUME NEW t \in Tasks, FireAsyncIO(t) PROVE NoLostWakeup'
  \* A full pipe holds a signal for the tasks.
  <2>1. asnc_io' > 0
    BY <1>3 DEF FireAsyncIO, Room, RoomLeft
  <2> QED
    BY <2>1
<1>4. CASE OnAsyncIO
  BY <1>4 DEF OnAsyncIO
<1>5. CASE Pop
  BY <1>5 DEF Pop, pipeVars
<1>6. ASSUME UNCHANGED <<queueVars, asnc_io, draining>> PROVE NoLostWakeup'
  BY <1>6 DEF queueVars
<1>7. ASSUME NEW c \in Channels, RemoveChannel(c) PROVE NoLostWakeup'
  BY <1>6, <1>7 DEF RemoveChannel
<1>8. CASE OnChannelRemove \/ Run \/ UNCHANGED vars
  BY <1>6, <1>8 DEF OnChannelRemove, Run, VerifyRemoveQueue, vars, pipeVars
<1> QED
  BY <1>1, <1>2, <1>3, <1>4, <1>5, <1>7, <1>8 DEF Next

\* As long as fewer channels are closed than the pipe has room for, work that
\* can be popped always has a wake-up on its way (AsyncIO, OnSoftSignal): a
\* signal lost to a full pipe is one the loop does not need.
THEOREM WakeupsSuffice == (MaxRemoves < PipeCapacity) => (Spec => []NoLostWakeup)
<1> SUFFICES ASSUME MaxRemoves < PipeCapacity PROVE Spec => []NoLostWakeup
  OBVIOUS
<1>1. Init => TypeOK /\ Shape /\ RoomLeft /\ NoLostWakeup
  <2> SUFFICES ASSUME Init PROVE RoomLeft /\ NoLostWakeup
    BY InitTypeOK, InitShape
  <2> QED
    BY EventLoopAssumption DEF Init, RoomLeft, NoLostWakeup, Nodes
<1>2. TypeOK /\ Shape /\ RoomLeft /\ NoLostWakeup /\ [Next]_vars
        => TypeOK' /\ Shape' /\ RoomLeft' /\ NoLostWakeup'
  BY NextTypeOK, NextShape, NextRoomLeft, NextWakeup
<1> QED
  BY <1>1, <1>2, PTL DEF Spec
-----------------------------------------------------------------------------
(***************************************************************************)
(* The safety of TaskQueue.  The list is the tasks in the order of their   *)
(* exchanges, with the stub in front; m_tail is the last one that was run. *)
(***************************************************************************)
Node(i) == IF i = 0 THEN Stub ELSE order[i]

Chain ==
  /\ Len(ran) <= Len(order) /\ \A i \in 1..Len(ran) : ran[i] = order[i]
  /\ m_head = Node(Len(order)) /\ m_tail = Node(Len(ran))
  /\ \A t \in Tasks : pc[t] # "new" <=> \E i \in 1..Len(order) : order[i] = t
  /\ \A i, j \in 1..Len(order) : order[i] = order[j] => i = j
  /\ \A i \in 1..Len(order) :
       IF pc[order[i]] = "exchanged" THEN prev[order[i]] = Node(i - 1)
                                     ELSE next[Node(i - 1)] = order[i]

LEMMA InitChain == Init => Chain
  BY DEF Init, Chain, Node

LEMMA Nodal ==
  ASSUME TypeOK, Chain
  PROVE  /\ Len(order) \in Nat /\ Len(ran) \in Nat
         /\ \A i \in 1..Len(order) : order[i] \in Tasks /\ order[i] # Stub
         /\ \A i \in 0..Len(order) : Node(i) \in Nodes
         /\ \A i, j \in 0..Len(order) : Node(i) = Node(j) => i = j
<1>1. Len(order) \in Nat /\ Len(ran) \in Nat
  BY DEF TypeOK
<1>2. \A i \in 1..Len(order) : order[i] \in Tasks /\ order[i] # Stub
  BY EventLoopAssumption DEF TypeOK
<1>3. \A i \in 0..Len(order) : i = 0 \/ i \in 1..Len(order)
  BY <1>1
<1>4. \A i, j \in 0..Len(order) : Node(i) = Node(j) => i = j
  BY <1>2, <1>3 DEF Node, Chain
<1> QED
  BY <1>1, <1>2, <1>3, <1>4 DEF Node, Nodes

LEMMA ExchangeChain ==
  ASSUME TypeOK, Shape, Chain, NEW t \in Tasks, Exchange(t)
  PROVE  Chain' /\ (\A i \in 1..Len(order) : order[i] # t)
<1> DEFINE n == Len(order)
<1>1. /\ order' = Append(order, t) /\ m_head' = t /\ pc[t] = "new"
      /\ pc' = [pc EXCEPT ![t] = "exchanged"] /\ prev' = [prev EXCEPT ![t] = m_head]
      /\ UNCHANGED <<m_tail, next, ran>>
  BY DEF Exchange
<1>2. /\ n \in Nat /\ Len(ran) \in Nat /\ Len(ran) <= n
      /\ \A i \in 1..n : order[i] \in Tasks
  BY Nodal DEF Chain
<1>3. /\ Len(order') = n + 1 /\ order'[n + 1] = t
      /\ \A i \in 1..n : order'[i] = order[i]
  <2>1. order \in Seq(Tasks)
    BY DEF TypeOK
  <2> QED  BY <1>1, <2>1
<1>4. \A i \in 1..n : order[i] # t
  BY <1>1, Zenon DEF Chain
<1>5. \A i \in 1..(n + 1) : i \in 1..n \/ i = n + 1
  BY <1>2
<1> HIDE DEF n
<1>6. \A i \in 0..n : Node(i)' = Node(i)
  <2>1. \A i \in 0..n : i = 0 \/ i \in 1..n
    BY <1>2
  <2> QED  BY <1>3, <2>1 DEF Node
<1>7. m_head' = Node(Len(order))' /\ m_tail' = Node(Len(ran))'
  <2>1. n + 1 # 0 /\ Len(ran) \in 0..n
    BY <1>2
  <2>2. m_head' = Node(Len(order))'
    BY <1>1, <1>3, <2>1 DEF Node
  <2>3. m_tail' = Node(Len(ran))
    BY <1>1 DEF Chain
  <2>4. Node(Len(ran))' = Node(Len(ran))
    <3>1. Len(ran') = Len(ran) /\ (Len(ran) = 0 \/ Len(ran) \in 1..n)
      BY <1>1, <1>2
    <3> QED  BY <1>3, <3>1 DEF Node
  <2> QED  BY <2>2, <2>3, <2>4
<1>8. \A u \in Tasks : pc'[u] # "new" <=> \E i \in 1..(n + 1) : order'[i] = u
  <2>1. SUFFICES ASSUME NEW u \in Tasks
                 PROVE  pc'[u] # "new" <=> \E i \in 1..(n + 1) : order'[i] = u
    OBVIOUS
  <2>2. CASE u = t
    BY <1>1, <1>2, <1>3, <2>2 DEF TypeOK
  <2>3. CASE u # t
    <3>1. pc'[u] = pc[u]
      BY <1>1, <2>3 DEF TypeOK
    <3>2. (\E i \in 1..(n + 1) : order'[i] = u) <=> \E i \in 1..n : order[i] = u
      BY <1>2, <1>3, <1>5, <2>3
    <3> QED  BY <3>1, <3>2 DEF Chain, n
  <2> QED  BY <2>2, <2>3
<1>9. \A i, j \in 1..(n + 1) : order'[i] = order'[j] => i = j
  BY <1>3, <1>4, <1>5 DEF Chain, n
<1>10. \A i \in 1..(n + 1) :
         IF pc'[order'[i]] = "exchanged" THEN prev'[order'[i]] = Node(i - 1)'
                                         ELSE next'[Node(i - 1)'] = order'[i]
  <2>1. SUFFICES ASSUME NEW i \in 1..(n + 1)
                 PROVE  IF pc'[order'[i]] = "exchanged" THEN prev'[order'[i]] = Node(i - 1)'
                                                        ELSE next'[Node(i - 1)'] = order'[i]
    OBVIOUS
  <2>2. i - 1 \in 0..n /\ Node(i - 1)' = Node(i - 1)
    BY <1>2, <1>6
  <2>3. CASE i = n + 1
    <3>1. pc'[t] = "exchanged" /\ prev'[t] = Node(n) /\ i - 1 = n
      BY <1>1, <1>2, <2>3 DEF Chain, TypeOK, n
    <3> QED  BY <1>3, <2>2, <2>3, <3>1
  <2>4. CASE i \in 1..n
    <3>1. order'[i] = order[i] /\ order[i] # t /\ order[i] \in Tasks
      BY <1>2, <1>3, <1>4, <2>4
    <3>2. pc'[order[i]] = pc[order[i]] /\ prev'[order[i]] = prev[order[i]]
      BY <1>1, <3>1 DEF TypeOK
    <3> QED  BY <1>1, <2>2, <2>4, <3>1, <3>2 DEF Chain, n
  <2> QED  BY <1>5, <2>3, <2>4
<1>11. Len(ran') <= n + 1 /\ \A i \in 1..Len(ran') : ran'[i] = order'[i]
  BY <1>1, <1>2, <1>3 DEF Chain
<1>12. Len(order') = n + 1
  BY <1>3
<1>13. Chain'
  BY <1>7, <1>8, <1>9, <1>10, <1>11, <1>12, Zenon DEF Chain
<1> QED  BY <1>4, <1>13 DEF n

LEMMA LinkNodeChain ==
  ASSUME TypeOK, Shape, Chain, NEW t \in Tasks, LinkNode(t) PROVE Chain'
<1> DEFINE n == Len(order)
<1>1. /\ pc[t] = "exchanged" /\ next' = [next EXCEPT ![prev[t]] = t]
      /\ pc' = [pc EXCEPT ![t] = "linked"]
      /\ UNCHANGED <<m_head, m_tail, prev, order, ran>>
  BY DEF LinkNode
<1>2. \A i \in 0..n : Node(i)' = Node(i) /\ Node(i) \in Nodes
  BY <1>1, Nodal DEF Node
<1>3. n \in Nat /\ Len(ran) \in Nat /\ \A i \in 1..n : order[i] \in Tasks /\ i - 1 \in 0..n
  <2>1. n \in Nat /\ Len(ran) \in Nat /\ \A i \in 1..n : order[i] \in Tasks
    BY Nodal
  <2>2. \A i \in 1..n : i - 1 \in 0..n
    BY <2>1
  <2> QED  BY <2>1, <2>2
<1>4. PICK k \in 1..n : order[k] = t
  BY <1>1 DEF Chain
<1>5. prev[t] = Node(k - 1) /\ k - 1 \in 0..n
  BY <1>1, <1>3, <1>4 DEF Chain
<1>6. \A i, j \in 0..n : Node(i) = Node(j) => i = j
  BY Nodal
<1>7. \A i \in 1..n : IF pc'[order'[i]] = "exchanged" THEN prev'[order'[i]] = Node(i - 1)'
                                                       ELSE next'[Node(i - 1)'] = order'[i]
  <2>1. SUFFICES ASSUME NEW i \in 1..n
                 PROVE  IF pc'[order[i]] = "exchanged" THEN prev[order[i]] = Node(i - 1)
                                                       ELSE next'[Node(i - 1)] = order[i]
    BY <1>1, <1>2, <1>3
  <2>2. CASE i = k
    <3>1. pc'[t] = "linked" /\ next'[prev[t]] = t
      BY <1>1, <1>2, <1>5 DEF TypeOK
    <3> QED  BY <1>4, <1>5, <2>2, <3>1
  <2>3. CASE i # k
    <3>1. order[i] # t /\ order[i] \in Tasks
      BY <1>3, <1>4, <2>3 DEF Chain
    <3>2. Node(i - 1) # prev[t]
      <4>1. i - 1 # k - 1 /\ i - 1 \in 0..n
        BY <1>3, <2>3
      <4> QED  BY <1>5, <1>6, <4>1
    <3>3. pc'[order[i]] = pc[order[i]] /\ next'[Node(i - 1)] = next[Node(i - 1)]
      BY <1>1, <1>2, <1>3, <3>1, <3>2 DEF TypeOK
    <3> QED  BY <3>3 DEF Chain
  <2> QED  BY <2>2, <2>3
<1>8. \A u \in Tasks : pc'[u] # "new" <=> pc[u] # "new"
  BY <1>1 DEF TypeOK
<1>9. m_head' = Node(n)' /\ m_tail' = Node(Len(ran))'
  <2>1. n \in 0..n /\ Len(ran) \in 0..n
    BY <1>3 DEF Chain
  <2> QED  BY <1>1, <1>2, <2>1 DEF Chain, Node
<1> QED  BY <1>1, <1>7, <1>8, <1>9 DEF Chain

\* Pop finds what was exchanged next, or nothing.
LEMMA PopChain ==
  ASSUME TypeOK, Shape, Chain, Pop
  PROVE  /\ Chain'
         /\ \/ UNCHANGED <<order, ran>>
            \/ /\ Len(ran) < Len(order) /\ UNCHANGED order
               /\ ran' = Append(ran, order[Len(ran) + 1])
<1> DEFINE n == Len(order)
           r == Len(ran)
<1>1. UNCHANGED <<m_head, next, pc, prev, order>>
  BY DEF Pop
<1>2. n \in Nat /\ r \in Nat /\ r <= n /\ \A i \in 1..n : order[i] \in Tasks
  BY Nodal DEF Chain
<1>3. CASE next[m_tail] = NULL
  <2>1. UNCHANGED <<m_tail, ran>>
    BY <1>3 DEF Pop
  <2> QED  BY <1>1, <2>1 DEF Chain, Node
<1>4. CASE next[m_tail] # NULL
  <2>1. m_tail' = next[m_tail] /\ ran' = Append(ran, next[m_tail])
    BY <1>4 DEF Pop
  <2>2. r # n
    BY <1>4 DEF Chain, Shape, Ends
  <2>3. r + 1 \in 1..n /\ (r + 1) - 1 = r
    BY <1>2, <2>2
  <2>4. m_tail = Node(r)
    BY DEF Chain
  <2>5. next[m_tail] = order[r + 1]
    <3>1. IF pc[order[r + 1]] = "exchanged" THEN prev[order[r + 1]] = Node(r)
                                            ELSE next[Node(r)] = order[r + 1]
      BY <2>3 DEF Chain
    <3>2. pc[order[r + 1]] # "exchanged"
      BY <1>2, <1>4, <2>3, <2>4, <3>1 DEF Shape, Ends, Exchanged
    <3> QED  BY <2>4, <3>1, <3>2
  <2>6. /\ Len(ran') = r + 1 /\ ran'[r + 1] = order[r + 1] /\ \A i \in 1..r : ran'[i] = ran[i]
    <3>1. ran \in Seq(Nodes)
      BY DEF TypeOK
    <3> QED  BY <2>1, <2>5, <3>1
  <2>7. \A i \in 1..(r + 1) : ran'[i] = order[i]
    <3>1. \A i \in 1..(r + 1) : i \in 1..r \/ i = r + 1
      BY <1>2
    <3> QED  BY <2>6, <3>1 DEF Chain
  <2>8. m_tail' = Node(Len(ran))' /\ m_head' = Node(n)'
    <3>1. r + 1 # 0
      BY <1>2
    <3> QED  BY <1>1, <2>1, <2>5, <2>6, <3>1 DEF Node, Chain
  <2>9. Chain'
    <3>1. \A i \in 1..n : Node(i - 1)' = Node(i - 1)
      BY <1>1 DEF Node
    <3>2. r + 1 <= n
      BY <1>2, <2>3
    <3> QED  BY <1>1, <2>6, <2>7, <2>8, <3>1, <3>2 DEF Chain
  <2>10. r < n /\ UNCHANGED order /\ ran' = Append(ran, order[r + 1])
    BY <1>1, <1>2, <2>1, <2>3, <2>5
  <2> QED  BY <2>9, <2>10
<1> QED  BY <1>3, <1>4

LEMMA SameChain == Chain /\ UNCHANGED <<queueVars, ran>> => Chain'
  BY DEF queueVars, Chain, Node

\* Every step keeps the chain, and runs the next task of it, adds one, or
\* leaves it alone.
LEMMA NextChain ==
  ASSUME TypeOK, Shape, Chain, [Next]_vars
  PROVE  /\ Chain'
         /\ \/ UNCHANGED <<order, ran>>
            \/ /\ Len(ran) < Len(order) /\ UNCHANGED order
               /\ ran' = Append(ran, order[Len(ran) + 1])
            \/ \E t \in Tasks : /\ \A i \in 1..Len(order) : order[i] # t
                               /\ order' = Append(order, t) /\ UNCHANGED ran
<1>1. ASSUME NEW t \in Tasks, Exchange(t)
      PROVE  /\ Chain' /\ \A i \in 1..Len(order) : order[i] # t
             /\ order' = Append(order, t) /\ UNCHANGED ran
  <2>1. order' = Append(order, t) /\ UNCHANGED ran
    BY <1>1 DEF Exchange
  <2> QED  BY <1>1, <2>1, ExchangeChain
<1>2. ASSUME NEW t \in Tasks, LinkNode(t) PROVE Chain' /\ UNCHANGED <<order, ran>>
  BY <1>2, LinkNodeChain DEF LinkNode
<1>3. ASSUME NEW t \in Tasks, FireAsyncIO(t) PROVE Chain' /\ UNCHANGED <<order, ran>>
  <2>1. /\ UNCHANGED <<m_head, m_tail, next, prev, order, ran>>
        /\ \A u \in Tasks : (pc'[u] = "new" <=> pc[u] = "new")
                           /\ (pc'[u] = "exchanged" <=> pc[u] = "exchanged")
    BY <1>3 DEF FireAsyncIO, TypeOK
  <2>2. \A i \in 1..Len(order) : order[i] \in Tasks
    BY Nodal
  <2> QED  BY <2>1, <2>2 DEF Chain, Node
<1>4. ASSUME UNCHANGED <<queueVars, ran>> PROVE Chain' /\ UNCHANGED <<order, ran>>
  BY <1>4, SameChain DEF queueVars
<1>5. CASE \/ OnAsyncIO \/ OnChannelRemove \/ Run \/ UNCHANGED vars
           \/ \E c \in Channels : RemoveChannel(c)
  BY <1>4, <1>5 DEF OnAsyncIO, OnChannelRemove, Run, VerifyRemoveQueue, RemoveChannel, vars
<1> QED  BY <1>1, <1>2, <1>3, <1>5, PopChain DEF Next

LEMMA PendingSteps ==
  ASSUME TypeOK, Chain
  PROVE  /\ \A t \in Tasks : order' = Append(order, t) /\ UNCHANGED ran
              => Pending' = Append(Pending, t)
         /\ Len(ran) < Len(order) /\ UNCHANGED order /\ ran' = Append(ran, order[Len(ran) + 1])
              => /\ Pending # <<>> /\ Head(Pending) = order[Len(ran) + 1]
                 /\ Pending' = Tail(Pending)
         /\ \A i \in DOMAIN Pending : \E j \in 1..Len(order) : Pending[i] = order[j]
         /\ \A i \in DOMAIN ran : \E j \in 1..Len(order) : ran[i] = order[j]
<1> DEFINE n == Len(order)
           r == Len(ran)
<1>1. order \in Seq(Tasks) /\ ran \in Seq(Nodes) /\ n \in Nat /\ r \in Nat /\ r <= n
  BY DEF TypeOK, Chain
<1>2. ASSUME NEW t \in Tasks, order' = Append(order, t), UNCHANGED ran
      PROVE  Pending' = Append(Pending, t)
  <2>1. Pending' = SubSeq(Append(order, t), r + 1, n + 1)
    <3>1. Len(Append(order, t)) = n + 1
      BY <1>1
    <3> QED  BY <1>2, <3>1 DEF Pending
  <2>2. SubSeq(Append(order, t), r + 1, n + 1) = Append(SubSeq(order, r + 1, n), t)
    <3> DEFINE a == SubSeq(Append(order, t), r + 1, n + 1)
               b == Append(SubSeq(order, r + 1, n), t)
               l == n - r
    <3>1. l \in Nat /\ r + l = n /\ r + (l + 1) = n + 1
      BY <1>1
    <3>2. a \in Seq(Tasks) /\ Len(a) = l + 1 /\ \A i \in 1..(l + 1) : a[i] = Append(order, t)[r + i]
      BY <1>1
    <3>3. b \in Seq(Tasks) /\ Len(b) = l + 1 /\ b[l + 1] = t /\ \A i \in 1..l : b[i] = order[r + i]
      BY <1>1
    <3> HIDE DEF a, b, l
    <3>4. \A i \in 1..(l + 1) : (i \in 1..l /\ r + i \in 1..n) \/ i = l + 1
      BY <1>1, <3>1
    <3>5. Append(order, t)[n + 1] = t /\ \A i \in 1..n : Append(order, t)[i] = order[i]
      BY <1>1
    <3>6. \A i \in 1..(l + 1) : a[i] = b[i]
      BY <3>1, <3>2, <3>3, <3>4, <3>5
    <3>7. a = b
      BY <3>2, <3>3, <3>6, SeqEqual
    <3> QED  BY <3>7 DEF a, b
  <2> QED  BY <2>1, <2>2 DEF Pending
<1>3. ASSUME r < n, UNCHANGED order, ran' = Append(ran, order[r + 1])
      PROVE  Pending # <<>> /\ Head(Pending) = order[r + 1] /\ Pending' = Tail(Pending)
  <2>1. Pending' = SubSeq(order, r + 2, n)
    <3>1. Len(ran') = r + 1 /\ (r + 1) + 1 = r + 2
      BY <1>1, <1>3
    <3> QED  BY <1>3, <3>1 DEF Pending
  <2>2. /\ SubSeq(order, r + 1, n) # <<>> /\ Head(SubSeq(order, r + 1, n)) = order[r + 1]
        /\ Tail(SubSeq(order, r + 1, n)) = SubSeq(order, r + 2, n)
    BY <1>1, <1>3
  <2> QED  BY <2>1, <2>2 DEF Pending
<1>4. \A i \in DOMAIN Pending : \E j \in 1..n : Pending[i] = order[j]
  <2>1. SUFFICES ASSUME NEW i \in DOMAIN SubSeq(order, r + 1, n)
                 PROVE  \E j \in 1..n : SubSeq(order, r + 1, n)[i] = order[j]
    BY DEF Pending
  <2>2. r + i \in 1..n /\ SubSeq(order, r + 1, n)[i] = order[r + i]
    BY <1>1
  <2> QED  BY <2>2
<1>5. \A i \in DOMAIN ran : \E j \in 1..n : ran[i] = order[j]
  <2>1. \A i \in DOMAIN ran : i \in 1..n /\ ran[i] = order[i]
    BY <1>1 DEF Chain
  <2> QED  BY <2>1
<1> QED  BY <1>2, <1>3, <1>4, <1>5

\* Whatever the interleaving of pushes and pops, the tasks that have been
\* exchanged wait in a sequence and are run once each, in its order: every
\* step is one of TaskQueue or changes nothing of it (AsyncIO, Push, Pop).
THEOREM QueueImplements == Spec => Abstract!Safety
<1>1. Init => Abstract!Init
  <2> SUFFICES ASSUME Init PROVE Pending = <<>> /\ ran = <<>>
    BY DEF Abstract!Init
  <2> QED  BY DEF Init, Pending
<1>2. TypeOK /\ Shape /\ Chain /\ [Next]_vars
        => Chain' /\ [Abstract!Next]_(Abstract!vars)
  <2> SUFFICES ASSUME TypeOK, Shape, Chain, [Next]_vars
               PROVE  Chain' /\ [Abstract!Next]_(Abstract!vars)
    OBVIOUS
  <2>1. CASE UNCHANGED <<order, ran>>
    BY <2>1, NextChain DEF Pending, Abstract!vars
  <2>2. CASE Len(ran) < Len(order) /\ UNCHANGED order /\ ran' = Append(ran, order[Len(ran) + 1])
    <3>1. /\ Pending # <<>> /\ Head(Pending) = order[Len(ran) + 1] /\ Pending' = Tail(Pending)
      BY <2>2, PendingSteps
    <3>2. Abstract!RunOne
      BY <2>2, <3>1 DEF Abstract!RunOne
    <3> QED  BY <3>2, NextChain DEF Abstract!Next
  <2>3. CASE \E t \in Tasks : /\ \A i \in 1..Len(order) : order[i] # t
                             /\ order' = Append(order, t) /\ UNCHANGED ran
    <3>1. PICK t \in Tasks : /\ \A i \in 1..Len(order) : order[i] # t
                             /\ order' = Append(order, t) /\ UNCHANGED ran
      BY <2>3
    <3>2. Pending' = Append(Pending, t)
      BY <3>1, PendingSteps
    <3>3. (\A i \in DOMAIN Pending : Pending[i] # t) /\ (\A i \in DOMAIN ran : ran[i] # t)
      BY <3>1, PendingSteps
    <3>4. Abstract!Post(t)
      BY <3>1, <3>2, <3>3 DEF Abstract!Post, Abstract!Elements
    <3> QED  BY <3>4, NextChain DEF Abstract!Next
  <2> QED  BY <2>1, <2>2, <2>3, NextChain
<1>3. Init => TypeOK /\ Shape /\ Chain
  BY InitTypeOK, InitShape, InitChain
<1>4. TypeOK /\ Shape /\ [Next]_vars => TypeOK' /\ Shape'
  BY NextTypeOK, NextShape
<1> QED  BY <1>1, <1>2, <1>3, <1>4, PTL DEF Spec, Abstract!Safety
-----------------------------------------------------------------------------
(***************************************************************************)
(* SpinRWLock.  The word is the number of threads counted in as readers    *)
(* and as writers, whether they have the lock or are about to back off; so *)
(* a thread that finds a count of nought, or of itself alone, knows that   *)
(* nobody is where it must not be.                                         *)
(***************************************************************************)
Readers == {t \in Threads : at[t] \in {"r_back", "reading"}}
Writers == {t \in Threads : at[t] \in {"w_back", "w_drain", "writing"}}

Word(R, W) == Cardinality(R) + WriterUnit * Cardinality(W)

\* The word counts the threads that have raised it.
Counted == m_lock = Word(Readers, Writers)

\* One writer at most is past its count, and it reads no table with a reader.
Alone ==
  /\ \A t, u \in Threads : at[t] \in {"w_drain", "writing"} /\ at[u] \in {"w_drain", "writing"} => t = u
  /\ \A t, u \in Threads : ~(at[t] = "writing" /\ at[u] = "reading")

IInv == LockTypeOK /\ Counted /\ Alone
-----------------------------------------------------------------------------
LEMMA Counts ==
  ASSUME NEW S \in SUBSET Threads
  PROVE  IsFiniteSet(S) /\ Cardinality(S) \in Nat /\ Cardinality(S) < 4096
<1>1. IsFiniteSet(S) /\ Cardinality(S) <= Cardinality(Threads)
  BY ThreadsAssumption, FS_Subset
<1>2. Cardinality(S) \in Nat /\ Cardinality(Threads) \in Nat
  BY <1>1, ThreadsAssumption, FS_CardinalityType
<1> QED
  BY <1>1, <1>2, ThreadsAssumption

LEMMA Bits ==
  ASSUME NEW r \in Nat, NEW w \in Nat, r < 4096
  PROVE  /\ WriterBits(r + WriterUnit * w) = w
         /\ ReaderBits(r + WriterUnit * w) = r
  BY DEF WriterBits, ReaderBits, WriterUnit

\* The two counts in a word.
LEMMA WordBits ==
  ASSUME NEW R \in SUBSET Threads, NEW W \in SUBSET Threads
  PROVE  /\ Word(R, W) \in Nat
         /\ WriterBits(Word(R, W)) = Cardinality(W)
         /\ ReaderBits(Word(R, W)) = Cardinality(R)
<1>1. PICK r \in Nat : r = Cardinality(R) /\ r < 4096
  BY Counts
<1>2. PICK w \in Nat : w = Cardinality(W)
  BY Counts
<1>3. r + WriterUnit * w \in Nat
  BY DEF WriterUnit
<1> QED
  BY <1>1, <1>2, <1>3, Bits DEF Word

\* Raising and lowering a count.
LEMMA WordSteps ==
  ASSUME NEW R \in SUBSET Threads, NEW W \in SUBSET Threads, NEW t \in Threads
  PROVE  /\ t \notin R => Word(R \cup {t}, W) = Word(R, W) + 1
         /\ t \in R => Word(R \ {t}, W) = Word(R, W) - 1
         /\ t \notin W => Word(R, W \cup {t}) = Word(R, W) + WriterUnit
         /\ t \in W => Word(R, W \ {t}) = Word(R, W) - WriterUnit
<1>1. /\ IsFiniteSet(R) /\ Cardinality(R) \in Nat
      /\ IsFiniteSet(W) /\ Cardinality(W) \in Nat
  BY Counts
<1>2. /\ t \notin R => Cardinality(R \cup {t}) = Cardinality(R) + 1
      /\ t \in R => Cardinality(R \ {t}) = Cardinality(R) - 1
  BY <1>1, FS_AddElement, FS_RemoveElement
<1>3. /\ t \notin W => Cardinality(W \cup {t}) = Cardinality(W) + 1
      /\ t \in W => Cardinality(W \ {t}) = Cardinality(W) - 1
  BY <1>1, FS_AddElement, FS_RemoveElement
<1> QED
  BY <1>1, <1>2, <1>3 DEF Word, WriterUnit
-----------------------------------------------------------------------------
\* The word after a step of t that is counted in (or out) as the new state
\* says: the four ways in which Readers and Writers change.
LEMMA CountedSteps ==
  ASSUME LockTypeOK, Counted, NEW t \in Threads, NEW s \in States, at' = [at EXCEPT ![t] = s]
  PROVE  /\ (t \in Readers <=> s \in {"r_back", "reading"})
              /\ (t \in Writers <=> s \in {"w_back", "w_drain", "writing"})
              /\ m_lock' = m_lock => Counted'
         /\ t \notin Readers /\ t \notin Writers /\ s \in {"r_back", "reading"}
              /\ m_lock' = m_lock + 1 => Counted' /\ Writers' = Writers
         /\ t \in Readers /\ s \in {"r_wait", "idle"} /\ m_lock' = m_lock - 1 => Counted'
         /\ t \notin Readers /\ t \notin Writers /\ s \in {"w_back", "w_drain"}
              /\ m_lock' = m_lock + WriterUnit => Counted' /\ Writers' = Writers \cup {t}
         /\ t \in Writers /\ s \in {"w_wait", "idle"} /\ m_lock' = m_lock - WriterUnit => Counted'
<1> DEFINE Rs == {"r_back", "reading"}
           Ws == {"w_back", "w_drain", "writing"}
<1>1. /\ Readers' = IF s \in Rs THEN Readers \cup {t} ELSE Readers \ {t}
      /\ Writers' = IF s \in Ws THEN Writers \cup {t} ELSE Writers \ {t}
  BY DEF LockTypeOK, Readers, Writers
<1>2. Readers \in SUBSET Threads /\ Writers \in SUBSET Threads
  BY DEF Readers, Writers
<1>3. ~(t \in Readers /\ t \in Writers)
  BY DEF Readers, Writers
<1>4. Counted' <=> m_lock' = Word(Readers', Writers')
  BY DEF Counted
<1>5. CASE (t \in Readers <=> s \in Rs) /\ (t \in Writers <=> s \in Ws) /\ m_lock' = m_lock
  <2>1. Readers' = Readers /\ Writers' = Writers
    BY <1>1, <1>5
  <2> QED
    BY <1>4, <1>5, <2>1 DEF Counted
<1>6. CASE t \notin Readers /\ t \notin Writers /\ s \in Rs /\ m_lock' = m_lock + 1
  <2>1. Readers' = Readers \cup {t} /\ Writers' = Writers
    BY <1>1, <1>6
  <2> QED
    BY <1>2, <1>4, <1>6, <2>1, WordSteps DEF Counted
<1>7. CASE t \in Readers /\ s \in {"r_wait", "idle"} /\ m_lock' = m_lock - 1
  <2>1. Readers' = Readers \ {t} /\ Writers' = Writers
    BY <1>1, <1>3, <1>7
  <2> QED
    BY <1>2, <1>4, <1>7, <2>1, WordSteps DEF Counted
<1>8. CASE t \notin Readers /\ t \notin Writers /\ s \in {"w_back", "w_drain"}
             /\ m_lock' = m_lock + WriterUnit
  <2>1. Readers' = Readers /\ Writers' = Writers \cup {t}
    BY <1>1, <1>8
  <2> QED
    BY <1>2, <1>4, <1>8, <2>1, WordSteps DEF Counted
<1>9. CASE t \in Writers /\ s \in {"w_wait", "idle"} /\ m_lock' = m_lock - WriterUnit
  <2>1. Readers' = Readers /\ Writers' = Writers \ {t}
    BY <1>1, <1>3, <1>9
  <2> QED
    BY <1>2, <1>4, <1>9, <2>1, WordSteps DEF Counted
<1> QED
  BY <1>1, <1>5, <1>6, <1>7, <1>8, <1>9
-----------------------------------------------------------------------------
LEMMA WordNat == Counted' => m_lock' \in Nat
  BY WordBits DEF Counted, Readers, Writers

LEMMA InitIInv == LockInit => IInv
<1> SUFFICES ASSUME LockInit PROVE IInv
  OBVIOUS
<1>1. Readers = {} /\ Writers = {}
  BY DEF LockInit, Readers, Writers
<1>2. Counted
  BY <1>1, FS_EmptySet DEF LockInit, Counted, Word, WriterUnit
<1> QED
  BY <1>2 DEF LockInit, IInv, LockTypeOK, Alone, States

\* A step that leaves the word as it is and moves t between states that hold
\* nothing.
LEMMA QuietStep ==
  ASSUME IInv, NEW t \in Threads, NEW s \in {"r_wait", "r_add", "w_wait", "w_add"},
         at[t] \in {"idle", "r_wait", "w_wait"}, at' = [at EXCEPT ![t] = s], UNCHANGED m_lock
  PROVE  IInv'
<1>1. t \notin Readers /\ t \notin Writers /\ s \in States
  BY DEF IInv, LockTypeOK, Readers, Writers, States
<1>2. Counted'
  BY <1>1, CountedSteps DEF IInv
<1>3. LockTypeOK' /\ Alone'
  BY <1>1 DEF IInv, LockTypeOK, Alone
<1> QED
  BY <1>2, <1>3 DEF IInv

\* A step that lowers the word and lets go.
LEMMA LowerStep ==
  ASSUME IInv, NEW t \in Threads,
         ReadBackOff(t) \/ ReadUnlock(t) \/ WriteBackOff(t) \/ WriteUnlock(t)
  PROVE  IInv'
<1>1. CASE ReadBackOff(t) \/ ReadUnlock(t)
  <2>1. PICK s \in {"r_wait", "idle"} : at' = [at EXCEPT ![t] = s] /\ m_lock' = m_lock - 1
    BY <1>1 DEF ReadBackOff, ReadUnlock, Step
  <2>2. t \in Readers /\ s \in States
    BY <1>1 DEF ReadBackOff, ReadUnlock, Step, Readers, States
  <2>3. Counted'
    BY <2>1, <2>2, CountedSteps DEF IInv
  <2> QED
    BY <2>1, <2>2, <2>3, WordNat DEF IInv, LockTypeOK, Alone
<1>2. CASE WriteBackOff(t) \/ WriteUnlock(t)
  <2>1. PICK s \in {"w_wait", "idle"} : at' = [at EXCEPT ![t] = s] /\ m_lock' = m_lock - WriterUnit
    BY <1>2 DEF WriteBackOff, WriteUnlock, Step
  <2>2. t \in Writers /\ s \in States
    BY <1>2 DEF WriteBackOff, WriteUnlock, Step, Writers, States
  <2>3. Counted'
    BY <2>1, <2>2, CountedSteps DEF IInv
  <2> QED
    BY <2>1, <2>2, <2>3, WordNat DEF IInv, LockTypeOK, Alone
<1> QED
  BY <1>1, <1>2

\* The step that gives a reader the lock: no writer is counted in.
LEMMA ReadAddStep == ASSUME IInv, NEW t \in Threads, ReadAdd(t) PROVE IInv'
<1>1. PICK s \in {"reading", "r_back"} : at' = [at EXCEPT ![t] = s]
                /\ (s = "reading" => WriterBits(m_lock') = 0)
  BY DEF ReadAdd, Step
<1>2. t \notin Readers /\ t \notin Writers /\ s \in States /\ m_lock' = m_lock + 1
  BY DEF ReadAdd, Step, Readers, Writers, States
<1>3. Counted' /\ Writers' = Writers
  BY <1>1, <1>2, CountedSteps DEF IInv
<1>4. LockTypeOK'
  BY <1>1, <1>2, <1>3, WordNat DEF IInv, LockTypeOK
<1>5. s = "reading" => \A u \in Threads : at[u] # "writing"
  <2> SUFFICES ASSUME s = "reading" PROVE Writers = {}
    BY DEF Writers
  <2>1. WriterBits(m_lock') = Cardinality(Writers')
    BY <1>3, WordBits DEF Counted, Readers, Writers
  <2>2. Cardinality(Writers) = 0 /\ IsFiniteSet(Writers)
    BY <1>1, <1>3, <2>1, Counts DEF Writers
  <2> QED
    BY <2>2, FS_EmptySet
<1>6. Alone'
  BY <1>1, <1>2, <1>5 DEF IInv, LockTypeOK, Alone
<1> QED
  BY <1>3, <1>4, <1>6 DEF IInv

\* The step that makes a writer the next: nobody else is counted as a writer.
LEMMA WriteAddStep == ASSUME IInv, NEW t \in Threads, WriteAdd(t) PROVE IInv'
<1>1. PICK s \in {"w_drain", "w_back"} : at' = [at EXCEPT ![t] = s]
                /\ (s = "w_drain" => WriterBits(m_lock') = 1)
  BY DEF WriteAdd, Step
<1>2. t \notin Readers /\ t \notin Writers /\ s \in States /\ m_lock' = m_lock + WriterUnit
  BY DEF WriteAdd, Step, Readers, Writers, States
<1>3. Counted' /\ Writers' = Writers \cup {t}
  BY <1>1, <1>2, CountedSteps DEF IInv
<1>4. LockTypeOK'
  BY <1>1, <1>2, <1>3, WordNat DEF IInv, LockTypeOK
<1>5. s = "w_drain" => \A u \in Threads \ {t} : at[u] \notin {"w_drain", "writing"}
  <2> SUFFICES ASSUME s = "w_drain" PROVE Writers = {}
    BY DEF Writers
  <2>1. WriterBits(m_lock') = Cardinality(Writers')
    BY <1>3, WordBits DEF Counted, Readers, Writers
  <2>2. Cardinality(Writers \cup {t}) = 1 /\ IsFiniteSet(Writers) /\ Cardinality(Writers) \in Nat
    BY <1>1, <1>3, <2>1, Counts DEF Writers
  <2>3. Cardinality(Writers) = 0
    BY <1>2, <2>2, FS_AddElement
  <2> QED
    BY <2>2, <2>3, FS_EmptySet
<1>6. Alone'
  BY <1>1, <1>2, <1>5 DEF IInv, LockTypeOK, Alone
<1> QED
  BY <1>3, <1>4, <1>6 DEF IInv

\* The step that gives a writer the lock: no reader is counted in.
LEMMA WriteDrainStep == ASSUME IInv, NEW t \in Threads, WriteDrain(t) PROVE IInv'
<1>1. at[t] = "w_drain" /\ at' = [at EXCEPT ![t] = "writing"] /\ m_lock' = m_lock
  BY DEF WriteDrain, Step
<1>2. t \notin Readers /\ t \in Writers /\ "writing" \in States
  BY <1>1 DEF Readers, Writers, States
<1>3. Counted'
  BY <1>1, <1>2, CountedSteps DEF IInv
<1>4. \A u \in Threads : at[u] # "reading"
  <2>1. ReaderBits(m_lock) = Cardinality(Readers)
    BY WordBits DEF IInv, Counted, Readers, Writers
  <2>2. Cardinality(Readers) = 0 /\ IsFiniteSet(Readers)
    BY <2>1, Counts DEF WriteDrain, Readers
  <2>3. Readers = {}
    BY <2>2, FS_EmptySet
  <2> QED
    BY <2>3 DEF Readers
<1>5. LockTypeOK' /\ Alone'
  BY <1>1, <1>2, <1>4 DEF IInv, LockTypeOK, Alone
<1> QED
  BY <1>3, <1>5 DEF IInv

LEMMA NextIInv == IInv /\ [LockNext]_lockVars => IInv'
<1> SUFFICES ASSUME IInv, [LockNext]_lockVars PROVE IInv'
  OBVIOUS
<1>1. ASSUME NEW t \in Threads, BeginRead(t) \/ ReadWait(t) \/ BeginWrite(t) \/ WriteWait(t)
      PROVE  IInv'
  BY <1>1, QuietStep DEF BeginRead, ReadWait, BeginWrite, WriteWait, Step
<1>2. ASSUME NEW t \in Threads,
             ReadBackOff(t) \/ ReadUnlock(t) \/ WriteBackOff(t) \/ WriteUnlock(t)
      PROVE  IInv'
  BY <1>2, LowerStep
<1>3. ASSUME NEW t \in Threads, ReadAdd(t) PROVE IInv'
  BY <1>3, ReadAddStep
<1>4. ASSUME NEW t \in Threads, WriteAdd(t) PROVE IInv'
  BY <1>4, WriteAddStep
<1>5. ASSUME NEW t \in Threads, WriteDrain(t) PROVE IInv'
  BY <1>5, WriteDrainStep
<1>6. CASE UNCHANGED lockVars
  BY <1>6 DEF lockVars, IInv, LockTypeOK, Counted, Readers, Writers, Alone
<1> QED
  BY <1>1, <1>2, <1>3, <1>4, <1>5, <1>6 DEF LockNext, Proceed

\* The word and the program counters keep their types: in particular the word
\* never goes below nought, where its two counts would run into each other.
THEOREM LockTypeCorrect == LockSpec => []LockTypeOK
<1>1. IInv => LockTypeOK
  BY DEF IInv
<1> QED
  BY <1>1, InitIInv, NextIInv, PTL DEF LockSpec

\* For any number of threads that the counts can hold, a writer has the lock
\* alone (SpinRWLock::Lock, SpinRWLock::Unlock).
THEOREM MutualExclusion == LockSpec => []Exclusion
<1>1. IInv => Exclusion
  BY DEF IInv, Alone, Exclusion
<1> QED
  BY <1>1, InitIInv, NextIInv, PTL DEF LockSpec
-----------------------------------------------------------------------------
(***************************************************************************)
(* The timer.  The heap's loops are described by the way they go through   *)
(* the array (Climbs, Sinks); MovedFacts says what exchanging the tasks on *)
(* it does, and ClimbOrders and SinkOrders that the order is back then.    *)
(***************************************************************************)
TaskRecord == [next : Nat, state : {"SCHEDULED", "EXECUTED", "CANCELLED"}, index : Nat, period : Nat]

\* A queue of tasks that know their places in it.
IsHeap(h) ==
  /\ h.q \in Seq(IDs) /\ h.t \in [DOMAIN h.t -> TaskRecord]
  /\ \A m \in 1..Len(h.q) : h.q[m] \in DOMAIN h.t /\ h.t[h.q[m]].index = m

Ordered(h) == \A m \in 2..Len(h.q) : When(h, m \div 2) <= When(h, m)

InQueue(h) == {h.q[m] : m \in 1..Len(h.q)}

\* g has the tasks of h, but for their places.
SameTasks(g, h) ==
  /\ DOMAIN g.t = DOMAIN h.t
  /\ \A id \in DOMAIN h.t : /\ g.t[id].next = h.t[id].next /\ g.t[id].state = h.t[id].state
                            /\ g.t[id].period = h.t[id].period

\* g is h with its tasks in other places.
Rearranged(g, h) ==
  IsHeap(g) /\ Len(g.q) = Len(h.q) /\ InQueue(g) = InQueue(h) /\ SameTasks(g, h)
-----------------------------------------------------------------------------
LEMMA HeapTypes ==
  ASSUME NEW h, IsHeap(h)
  PROVE  /\ Len(h.q) \in Nat /\ DOMAIN h.q = 1..Len(h.q)
         /\ \A m \in 1..Len(h.q) : When(h, m) \in Nat /\ h.q[m] \in IDs
         /\ \A m, n \in 1..Len(h.q) : h.q[m] = h.q[n] => m = n
<1>1. Len(h.q) \in Nat /\ h.q \in [1..Len(h.q) -> IDs]
  BY LenProperties DEF IsHeap
<1> QED BY <1>1 DEF IsHeap, When, TaskRecord

\* What Moved makes of a heap when the places only exchange their tasks.
LEMMA MovedFacts ==
  ASSUME NEW h, IsHeap(h), NEW S \in SUBSET (1..Len(h.q)), NEW from \in [S -> S],
         \A m, n \in S : from[m] = from[n] => m = n,
         \A n \in S : \E m \in S : from[m] = n
  PROVE  /\ Rearranged(Moved(h, from), h)
         /\ \A m \in 1..Len(h.q) :
              When(Moved(h, from), m) = IF m \in S THEN When(h, from[m]) ELSE When(h, m)
<1> DEFINE n == Len(h.q)
           g == Moved(h, from)
           New(id) == {m \in S : from[m] # m /\ g.q[m] = id}
<1>1. n \in Nat /\ DOMAIN h.q = 1..n /\ \A m, j \in 1..n : h.q[m] = h.q[j] => m = j
  BY HeapTypes
<1>2. g.q = [m \in 1..n |-> IF m \in S THEN h.q[from[m]] ELSE h.q[m]]
  BY <1>1 DEF Moved
<1>3. \A m \in 1..n : g.q[m] = IF m \in S THEN h.q[from[m]] ELSE h.q[m]
  BY <1>2
<1>4. g.t = [id \in DOMAIN h.t |-> IF New(id) = {} THEN h.t[id]
                                  ELSE [h.t[id] EXCEPT !.index = CHOOSE m \in New(id) : TRUE]]
  BY <1>1, <1>2 DEF Moved
<1> HIDE DEF g
<1>5. \A m \in 1..n : h.q[m] \in IDs /\ h.q[m] \in DOMAIN h.t /\ h.t[h.q[m]].index = m
  BY HeapTypes DEF IsHeap
<1> DEFINE origin == [m \in 1..n |-> IF m \in S THEN from[m] ELSE m]
<1>6. /\ \A m \in 1..n : origin[m] \in 1..n /\ g.q[m] = h.q[origin[m]]
      /\ \A m, j \in 1..n : origin[m] = origin[j] => m = j
      /\ \A j \in 1..n : \E m \in 1..n : origin[m] = j
  <2>1. \A m \in 1..n : origin[m] = IF m \in S THEN from[m] ELSE m
    OBVIOUS
  <2>2. \A m \in S : m \in 1..n /\ from[m] \in S /\ from[m] \in 1..n
    OBVIOUS
  <2> HIDE DEF origin, n
  <2>3. \A m \in 1..n : origin[m] \in 1..n /\ g.q[m] = h.q[origin[m]]
    BY <1>3, <2>1, <2>2
  <2>4. \A m, j \in 1..n : origin[m] = origin[j] => m = j
    BY <2>1, <2>2
  <2>5. ASSUME NEW j \in 1..n PROVE \E m \in 1..n : origin[m] = j
    BY <2>1, <2>2
  <2> QED BY <2>3, <2>4, <2>5
<1> HIDE DEF origin
<1>7. g.q \in Seq(IDs) /\ Len(g.q) = n
  <2>1. g.q \in [1..n -> IDs]
    <3>1. \A m \in 1..n : g.q[m] \in IDs
      BY <1>5, <1>6
    <3>2. g.q = [m \in 1..n |-> g.q[m]]
      BY <1>2
    <3> HIDE DEF n
    <3> QED BY <3>1, <3>2
  <2> QED BY <1>1, <2>1
<1>8. \A m, j \in 1..n : g.q[m] = g.q[j] => m = j
  <2> SUFFICES ASSUME NEW m \in 1..n, NEW j \in 1..n, g.q[m] = g.q[j] PROVE m = j
    OBVIOUS
  <2>1. origin[m] \in 1..n /\ origin[j] \in 1..n /\ h.q[origin[m]] = h.q[origin[j]]
    BY <1>6
  <2>2. origin[m] = origin[j]
    BY <1>1, <2>1
  <2> QED BY <1>6, <2>2
<1>9. ASSUME NEW id \in DOMAIN h.t
      PROVE  /\ g.t[id] \in TaskRecord
             /\ g.t[id].next = h.t[id].next /\ g.t[id].state = h.t[id].state
             /\ g.t[id].period = h.t[id].period
             /\ New(id) = {} => g.t[id].index = h.t[id].index
             /\ New(id) # {} => g.t[id].index \in New(id)
  <2>1. h.t[id] \in TaskRecord
    BY DEF IsHeap
  <2>2. CASE New(id) = {}
    BY <1>4, <2>1, <2>2
  <2>3. CASE New(id) # {}
    <3>1. PICK x : x = (CHOOSE m \in New(id) : TRUE)
      OBVIOUS
    <3>2. x \in New(id)
      BY <2>3, <3>1
    <3>3. x \in Nat
      BY <1>1, <3>2
    <3>4. g.t[id] = [h.t[id] EXCEPT !.index = x]
      BY <1>4, <2>3, <3>1
    <3> HIDE DEF New
    <3> QED BY <2>1, <2>3, <3>2, <3>3, <3>4 DEF TaskRecord
  <2> QED BY <2>2, <2>3
<1>10. DOMAIN g.t = DOMAIN h.t /\ g.t \in [DOMAIN g.t -> TaskRecord]
  BY <1>4, <1>9
<1>11. ASSUME NEW m \in 1..n
       PROVE  g.q[m] \in DOMAIN g.t /\ g.t[g.q[m]].index = m
  <2>1. g.q[m] \in DOMAIN h.t
    BY <1>3, <1>5
  <2>2. CASE m \in S /\ from[m] # m
    <3>1. m \in New(g.q[m])
      BY <2>2
    <3>2. g.t[g.q[m]].index \in New(g.q[m])
      BY <1>9, <2>1, <3>1
    <3>3. PICK j \in 1..n : j = g.t[g.q[m]].index /\ g.q[j] = g.q[m]
      BY <3>2
    <3>4. j = m
      BY <1>8, <3>3
    <3> QED BY <1>10, <2>1, <3>3, <3>4
  <2>3. CASE ~(m \in S /\ from[m] # m)
    <3>1. g.q[m] = h.q[m]
      BY <1>3, <2>3
    <3>2. New(g.q[m]) = {}
      BY <1>8, <2>3
    <3>3. g.t[g.q[m]].index = h.t[g.q[m]].index
      BY <1>9, <2>1, <3>2
    <3>4. h.t[g.q[m]].index = m
      BY <1>5, <3>1
    <3> QED BY <1>10, <2>1, <3>3, <3>4
  <2> QED BY <2>2, <2>3
<1>12. IsHeap(g)
  BY <1>7, <1>10, <1>11 DEF IsHeap
<1>13. InQueue(g) = InQueue(h)
  <2>1. \A x : x \in InQueue(g) <=> \E m \in 1..n : g.q[m] = x
    BY <1>7 DEF InQueue
  <2>2. \A x : x \in InQueue(h) <=> \E j \in 1..n : h.q[j] = x
    BY DEF InQueue
  <2>3. ASSUME NEW x \in InQueue(g) PROVE x \in InQueue(h)
    <3>1. PICK m \in 1..n : g.q[m] = x
      BY <2>1
    <3> QED BY <1>6, <2>2, <3>1
  <2>4. ASSUME NEW x \in InQueue(h) PROVE x \in InQueue(g)
    <3>1. PICK j \in 1..n : h.q[j] = x
      BY <2>2
    <3>2. PICK m \in 1..n : origin[m] = j
      BY <1>6
    <3> QED BY <1>6, <2>1, <3>1, <3>2
  <2> QED BY <2>3, <2>4
<1>14. Rearranged(g, h)
  BY <1>7, <1>9, <1>10, <1>12, <1>13 DEF Rearranged, SameTasks
<1>15. \A m \in 1..n : When(g, m) = IF m \in S THEN When(h, from[m]) ELSE When(h, m)
  <2>1. ASSUME NEW m \in 1..n PROVE When(g, m) = When(h, origin[m])
    BY <1>5, <1>9, <1>6 DEF When
  <2> QED BY <2>1 DEF origin
<1> QED BY <1>14, <1>15 DEF g
-----------------------------------------------------------------------------
\* A child is further than its parent.
LEMMA Halves ==
  /\ \A m \in Nat \ {0, 1} : m \div 2 \in 1..m-1
  /\ \A m \in Nat : (2 * m) \div 2 = m /\ (2 * m + 1) \div 2 = m
  /\ \A m \in Nat : m = 2 * (m \div 2) \/ m = 2 * (m \div 2) + 1
  OBVIOUS

\* FixUp restores the order if only the last task is out of it.
LEMMA ClimbOrders ==
  ASSUME NEW h, IsHeap(h), Len(h.q) # 0,
         \A m \in 2..Len(h.q)-1 : When(h, m \div 2) <= When(h, m),
         NEW g \in FixUp(h, Len(h.q))
  PROVE  Rearranged(g, h) /\ Ordered(g)
<1> DEFINE k == Len(h.q)
<1>1. PICK w \in Paths(k, k) :
        /\ Climbs(h, k, w)
        /\ g = Moved(h, [m \in w.places |-> IF m = w.last THEN k ELSE m \div 2])
  BY DEF FixUp
<1> DEFINE S == w.places
           top == w.last
           from == [m \in S |-> IF m = top THEN k ELSE m \div 2]
<1>2. k \in Nat \ {0} /\ S \in SUBSET (1..k) /\ k \in S /\ top \in S
  BY <1>1, HeapTypes DEF Paths, Climbs, IsPath
<1>3. /\ \A m \in S \ {top} : m \div 2 \in S /\ When(h, m \div 2) > When(h, k)
      /\ \A m \in S \ {k} : (2 * m \in S) # (2 * m + 1 \in S)
      /\ top = 1 \/ When(h, top \div 2) <= When(h, k)
  BY <1>1 DEF Climbs, IsPath
<1>4. \A m \in 1..k : When(h, m) \in Nat
  BY HeapTypes
<1>5. g = Moved(h, from)
  BY <1>1
<1>6. \A m \in S : from[m] = IF m = top THEN k ELSE m \div 2
  OBVIOUS
<1>7. from \in [S -> S]
  BY <1>2, <1>3
<1> HIDE DEF k, S, top, from
<1>8. \A m \in S : m \in 1..k /\ m \in Nat /\ (m # top => m \in Nat \ {0, 1})
  <2> SUFFICES ASSUME NEW m \in S PROVE m \in 1..k /\ m \in Nat /\ (m # top => m \in Nat \ {0, 1})
    OBVIOUS
  <2>1. m \in 1..k /\ m \in Nat
    BY <1>2
  <2>2. CASE m = 1 /\ m # top
    <3>1. m \div 2 \in S /\ m \div 2 = 0
      BY <1>3, <2>2
    <3> QED BY <1>2, <3>1
  <2> QED BY <2>1, <2>2
\* Above the end of the path nothing belongs to it.
<1>9. top = 1 \/ (top \div 2 \in 1..k-1 /\ top \div 2 \notin S)
  <2> SUFFICES ASSUME top # 1 PROVE top \div 2 \in 1..k-1 /\ top \div 2 \notin S
    OBVIOUS
  <2>1. top \div 2 \in 1..top-1 /\ top \in 1..k
    BY <1>2, <1>8, Halves
  <2>2. top \div 2 \in 1..k-1 /\ top \div 2 # top
    BY <1>2, <2>1
  <2>3. CASE top \div 2 \in S
    <3> DEFINE p == top \div 2
    <3>1. p \in S \ {top} /\ p \in Nat \ {0, 1} /\ p \in 2..k-1
      BY <1>8, <2>2, <2>3
    <3>2. When(h, p \div 2) > When(h, k) /\ When(h, p) <= When(h, k) /\ p \div 2 \in S
      BY <1>3, <3>1, <2>2
    <3>3. When(h, p \div 2) <= When(h, p)
      BY <3>1 DEF k
    <3>4. When(h, p \div 2) \in Nat /\ When(h, p) \in Nat /\ When(h, k) \in Nat
      BY <1>2, <1>4, <1>8, <3>1, <3>2
    <3> QED BY <3>2, <3>3, <3>4
  <2> QED BY <2>2, <2>3
<1>10. \A m, j \in S : from[m] = from[j] => m = j
  <2> SUFFICES ASSUME NEW m \in S, NEW j \in S, from[m] = from[j], m # j PROVE FALSE
    OBVIOUS
  <2>1. \A i \in S : i # top => i \div 2 \in 1..i-1 /\ i <= k
    BY <1>8, Halves
  <2>2. m # top /\ j # top
    BY <1>2, <1>6, <2>1
  <2>3. m \div 2 = j \div 2 /\ m \div 2 \in S /\ m \div 2 # k
    BY <1>2, <1>3, <1>6, <1>8, <2>1, <2>2
  <2>4. /\ m = 2 * (m \div 2) \/ m = 2 * (m \div 2) + 1
        /\ j = 2 * (m \div 2) \/ j = 2 * (m \div 2) + 1
    BY <1>8, <2>3, Halves
  <2> QED BY <1>3, <2>3, <2>4
<1>11. \A j \in S : \E m \in S : from[m] = j
  <2> SUFFICES ASSUME NEW j \in S PROVE \E m \in S : from[m] = j
    OBVIOUS
  <2>1. CASE j = k
    BY <1>2, <1>6, <2>1
  <2>2. CASE j # k
    <3>1. PICK c \in S : c = 2 * j \/ c = 2 * j + 1
      BY <1>3, <2>2
    <3>2. c \div 2 = j /\ j \in Nat
      BY <1>8, <3>1, Halves
    <3>3. c # top
      BY <1>8, <1>9, <3>1, <3>2
    <3> QED BY <1>6, <3>2, <3>3
  <2> QED BY <2>1, <2>2
<1>12. /\ Rearranged(g, h)
       /\ \A m \in 1..k : When(g, m) = IF m \in S THEN When(h, from[m]) ELSE When(h, m)
  <2>1. S \in SUBSET (1..Len(h.q))
    BY <1>2 DEF k
  <2>2. /\ Rearranged(Moved(h, from), h)
        /\ \A m \in 1..Len(h.q) :
             When(Moved(h, from), m) = IF m \in S THEN When(h, from[m]) ELSE When(h, m)
    BY <2>1, <1>7, <1>10, <1>11, MovedFacts
  <2> QED BY <1>5, <2>2 DEF k
<1>13. ASSUME NEW m \in 2..k
       PROVE  When(g, m \div 2) <= When(g, m)
  <2> DEFINE p == m \div 2
  <2>1. m \in 1..k /\ p \in 1..k-1 /\ m \in Nat \ {0, 1} /\ (m = 2 * p \/ m = 2 * p + 1)
    BY <1>2, Halves
  <2>2. p \in 1..k /\ p # k /\ p \in Nat /\ k \in 1..k
    BY <1>2, <2>1
  <2> HIDE DEF p
  <2>3. m # k => When(h, p) <= When(h, m)
    BY <1>2, <2>1 DEF p, k
  <2>4. p # 1 => When(h, p \div 2) <= When(h, p) /\ p \div 2 \in 1..k
    <3> SUFFICES ASSUME p # 1 PROVE When(h, p \div 2) <= When(h, p) /\ p \div 2 \in 1..k
      OBVIOUS
    <3>1. p \in 2..k-1 /\ p \in Nat \ {0, 1}
      BY <2>1, <1>2
    <3>2. p \div 2 \in 1..p-1
      BY <3>1, Halves
    <3> QED BY <1>2, <3>1, <3>2 DEF k
  <2>5. /\ When(h, m) \in Nat /\ When(h, p) \in Nat /\ When(h, k) \in Nat
        /\ p # 1 => When(h, p \div 2) \in Nat
    BY <1>4, <2>1, <2>2, <2>4
  <2>6. CASE m \in S /\ m # top
    <3>1. p \in S /\ When(h, p) > When(h, k) /\ When(g, m) = When(h, p)
      BY <1>3, <1>6, <1>12, <2>1, <2>6 DEF p
    <3>2. CASE p = top
      <4>1. When(g, p) = When(h, k)
        BY <1>6, <1>12, <2>2, <3>1, <3>2
      <4> QED BY <2>5, <3>1, <4>1 DEF p
    <3>3. CASE p # top
      <4>1. When(g, p) = When(h, p \div 2) /\ p # 1
        BY <1>6, <1>8, <1>12, <2>2, <3>1, <3>3
      <4> QED BY <2>4, <3>1, <4>1 DEF p
    <3> QED BY <3>2, <3>3
  <2>7. CASE m = top
    <3>1. p \notin S /\ When(h, p) <= When(h, k)
      BY <1>3, <1>9, <2>1, <2>7 DEF p
    <3>2. When(g, m) = When(h, k) /\ When(g, p) = When(h, p)
      BY <1>2, <1>6, <1>12, <2>2, <2>7, <3>1
    <3> QED BY <3>1, <3>2 DEF p
  <2>8. CASE m \notin S
    <3>1. When(g, m) = When(h, m) /\ m # k
      BY <1>2, <1>12, <2>1, <2>8
    <3>2. CASE p \notin S
      <4>1. When(g, p) = When(h, p)
        BY <1>12, <2>2, <3>2
      <4> QED BY <2>3, <3>1, <4>1 DEF p
    <3>3. CASE p \in S /\ p # top
      <4>1. When(g, p) = When(h, p \div 2) /\ p # 1
        BY <1>6, <1>8, <1>12, <2>2, <3>3
      <4> QED BY <2>3, <2>4, <2>5, <3>1, <4>1 DEF p
    <3>4. CASE p = top
      <4>1. When(g, p) = When(h, k)
        BY <1>2, <1>6, <1>12, <2>2, <3>4
      <4>2. PICK c \in S : c = 2 * p \/ c = 2 * p + 1
        BY <1>2, <1>3, <2>2, <3>4
      <4>3. c \div 2 = p
        BY <2>2, <4>2, Halves
      <4>5. c # top
        BY <2>1, <2>2, <3>4, <4>2
      <4>4. When(h, p) > When(h, k)
        BY <1>3, <4>3, <4>5
      <4> QED BY <2>3, <2>5, <3>1, <4>1, <4>4 DEF p
    <3> QED BY <3>2, <3>3, <3>4
  <2> QED BY <2>6, <2>7, <2>8
<1> QED BY <1>12, <1>13 DEF Ordered, Rearranged, k

\* The kid of a place is below it, and the earliest there.
LEMMA KidLeast ==
  ASSUME NEW h, IsHeap(h), NEW p \in Nat \ {0}
  PROVE  /\ Kid(h, p) \in Nat \ {0, 1} /\ Kid(h, p) \div 2 = p
         /\ \A m \in 2..Len(h.q) : m \div 2 = p =>
              Kid(h, p) \in 2..Len(h.q) /\ 2 * p <= Len(h.q) /\ When(h, Kid(h, p)) <= When(h, m)
<1> DEFINE n == Len(h.q)
           c == Kid(h, p)
<1>1. n \in Nat /\ \A m \in 1..n : When(h, m) \in Nat
  BY HeapTypes
<1>2. /\ c \in {2 * p, 2 * p + 1}
      /\ c = 2 * p + 1 => 2 * p < n /\ When(h, 2 * p) > When(h, 2 * p + 1)
      /\ c = 2 * p => ~(2 * p < n /\ When(h, 2 * p) > When(h, 2 * p + 1))
  BY DEF Kid
<1> HIDE DEF n, c
<1>3. c \in Nat \ {0, 1} /\ c \div 2 = p
  BY <1>2, Halves
<1>4. ASSUME NEW m \in 2..n, m \div 2 = p
      PROVE  c \in 2..n /\ 2 * p <= n /\ When(h, c) <= When(h, m)
  <2>1. m = 2 * p \/ m = 2 * p + 1
    BY <1>1, <1>4, Halves
  <2>2. c \in 2..n /\ 2 * p <= n
    BY <1>1, <1>2, <2>1
  <2>3. When(h, c) \in Nat /\ When(h, m) \in Nat
    BY <1>1, <2>2
  <2>4. CASE c = m
    BY <2>2, <2>3, <2>4
  <2>5. CASE c = 2 * p /\ m = 2 * p + 1
    <3>1. 2 * p < n
      BY <1>1, <2>5
    <3>2. ~(When(h, c) > When(h, m))
      BY <1>2, <2>5, <3>1
    <3> QED BY <2>2, <2>3, <3>2
  <2>6. CASE c = 2 * p + 1 /\ m = 2 * p
    <3>1. When(h, m) > When(h, c)
      BY <1>2, <2>6
    <3> QED BY <2>2, <2>3, <3>1
  <2> QED BY <1>2, <2>1, <2>4, <2>5, <2>6
<1> QED BY <1>3, <1>4 DEF c, n

\* FixDown restores the order if only the first task is out of it.
LEMMA SinkOrders ==
  ASSUME NEW h, IsHeap(h), Len(h.q) # 0,
         \A m \in 2..Len(h.q) : m \div 2 # 1 => When(h, m \div 2) <= When(h, m),
         NEW g \in FixDown(h, 1)
  PROVE  Rearranged(g, h) /\ Ordered(g)
<1> DEFINE n == Len(h.q)
<1>1. PICK w \in Paths(1, n) :
        /\ Sinks(h, 1, w)
        /\ g = Moved(h, [m \in w.places |-> IF m = w.last THEN 1 ELSE Kid(h, m)])
  BY DEF FixDown
<1> DEFINE S == w.places
           bottom == w.last
           from == [m \in S |-> IF m = bottom THEN 1 ELSE Kid(h, m)]
<1>2. n \in Nat \ {0} /\ S \in SUBSET (1..n) /\ 1 \in S /\ bottom \in S
  BY <1>1, HeapTypes DEF Paths, Sinks, IsPath
<1>3. /\ \A m \in S \ {1} : m \div 2 \in S /\ m = Kid(h, m \div 2) /\ When(h, m) < When(h, 1)
      /\ \A m \in S \ {bottom} : (2 * m \in S) # (2 * m + 1 \in S)
      /\ 2 * bottom > n \/ When(h, 1) <= When(h, Kid(h, bottom))
  BY <1>1 DEF Sinks, IsPath
<1>4. \A m \in 1..n : When(h, m) \in Nat
  BY HeapTypes
<1>5. g = Moved(h, from)
  BY <1>1
<1>6. \A m \in S : from[m] = IF m = bottom THEN 1 ELSE Kid(h, m)
  OBVIOUS
<1>7. \A m \in S : m \in 1..n /\ m \in Nat \ {0}
  BY <1>2
<1>8. \A m \in Nat \ {0} : Kid(h, m) \in Nat \ {0, 1} /\ Kid(h, m) \div 2 = m
  BY KidLeast
<1>9. \A m \in S \ {bottom} : Kid(h, m) \in S \ {1}
  <2> SUFFICES ASSUME NEW m \in S \ {bottom} PROVE Kid(h, m) \in S \ {1}
    OBVIOUS
  <2>1. PICK c \in S : c = 2 * m \/ c = 2 * m + 1
    BY <1>3
  <2>2. c \div 2 = m /\ c # 1
    BY <1>7, <2>1, Halves
  <2> QED BY <1>3, <2>2
<1>10. from \in [S -> S]
  BY <1>2, <1>9
<1> HIDE DEF n, S, bottom, from
<1>11. \A m \in S \ {1} : m \div 2 # bottom
  <2> SUFFICES ASSUME NEW m \in S \ {1}, m \div 2 = bottom PROVE FALSE
    OBVIOUS
  <2>1. m \in 2..n /\ bottom \in Nat \ {0}
    BY <1>2, <1>7
  <2>2. 2 * bottom <= n
    BY <2>1, KidLeast DEF n
  <2>3. When(h, 1) <= When(h, m) /\ When(h, m) < When(h, 1)
    BY <1>2, <1>3, <2>1, <2>2
  <2> QED BY <1>2, <1>4, <1>7, <2>3
<1>12. \A m, j \in S : from[m] = from[j] => m = j
  BY <1>6, <1>7, <1>8
<1>13. \A j \in S : \E m \in S : from[m] = j
  <2> SUFFICES ASSUME NEW j \in S PROVE \E m \in S : from[m] = j
    OBVIOUS
  <2>1. CASE j = 1
    BY <1>2, <1>6, <2>1
  <2>2. CASE j # 1
    BY <1>3, <1>6, <1>11, <2>2
  <2> QED BY <2>1, <2>2
<1>14. /\ Rearranged(g, h)
       /\ \A m \in 1..n : When(g, m) = IF m \in S THEN When(h, from[m]) ELSE When(h, m)
  <2>1. S \in SUBSET (1..Len(h.q))
    BY <1>2 DEF n
  <2>2. /\ Rearranged(Moved(h, from), h)
        /\ \A m \in 1..Len(h.q) :
             When(Moved(h, from), m) = IF m \in S THEN When(h, from[m]) ELSE When(h, m)
    BY <2>1, <1>10, <1>12, <1>13, MovedFacts
  <2> QED BY <1>5, <2>2 DEF n
<1>15. ASSUME NEW m \in 2..n
       PROVE  When(g, m \div 2) <= When(g, m)
  <2> DEFINE p == m \div 2
             c == Kid(h, p)
  <2>1. m \in 1..n /\ m # 1 /\ p \in 1..n /\ p \in Nat \ {0}
    BY <1>2, Halves
  <2>2. c \in 2..n /\ 2 * p <= n /\ When(h, c) <= When(h, m)
    BY <2>1, KidLeast DEF n
  <2>3. p # 1 => When(h, p) <= When(h, m)
    BY DEF n
  <2>4. m \in S => p \in S /\ m = c /\ When(h, m) < When(h, 1) /\ p # bottom
    BY <1>3, <1>11, <2>1
  <2> HIDE DEF p, c
  <2>5. /\ When(h, m) \in Nat /\ When(h, p) \in Nat /\ When(h, c) \in Nat
        /\ When(h, 1) \in Nat
    BY <1>2, <1>4, <2>1, <2>2
  <2>6. CASE p \in S /\ p # bottom
    <3>1. When(g, p) = When(h, c)
      BY <1>6, <1>14, <2>1, <2>6 DEF c
    <3>2. CASE m = bottom
      <4>1. When(g, m) = When(h, 1)
        BY <1>2, <1>6, <1>14, <2>1, <3>2
      <4> QED BY <1>2, <2>4, <2>5, <3>1, <3>2, <4>1 DEF p
    <3>3. CASE m \in S /\ m # bottom
      <4> DEFINE e == Kid(h, m)
      <4>1. When(g, m) = When(h, e)
        BY <1>6, <1>14, <2>1, <3>3
      <4>2. e \in S /\ e # 1 /\ e \div 2 = m
        BY <1>7, <1>8, <1>9, <3>3
      <4> HIDE DEF e
      <4>5. e \in 2..n
        BY <1>2, <1>7, <4>2
      <4>3. When(h, m) <= When(h, e)
        BY <2>1, <4>2, <4>5 DEF n
      <4> QED BY <2>4, <3>1, <3>3, <4>1, <4>3 DEF p
    <3>4. CASE m \notin S
      <4>1. When(g, m) = When(h, m)
        BY <1>14, <2>1, <3>4
      <4> QED BY <2>2, <3>1, <4>1 DEF p
    <3> QED BY <3>2, <3>3, <3>4
  <2>7. CASE p = bottom
    <3>1. m \notin S
      BY <2>4, <2>7
    <3>2. When(g, p) = When(h, 1) /\ When(g, m) = When(h, m)
      BY <1>2, <1>6, <1>14, <2>1, <2>7, <3>1
    <3>3. When(h, 1) <= When(h, c)
      BY <1>2, <1>3, <1>7, <2>2, <2>7 DEF c
    <3> QED BY <2>2, <2>5, <3>2, <3>3 DEF p
  <2>8. CASE p \notin S
    <3>1. When(g, p) = When(h, p) /\ When(g, m) = When(h, m) /\ p # 1
      BY <1>2, <1>14, <2>1, <2>4, <2>8
    <3> QED BY <2>3, <3>1 DEF p
  <2> QED BY <2>6, <2>7, <2>8
<1> QED BY <1>14, <1>15 DEF Ordered, Rearranged, n
-----------------------------------------------------------------------------
LEMMA LeastNumber ==
  ASSUME NEW T \in SUBSET Nat, T # {}
  PROVE  \E x \in T : \A y \in T : x <= y
<1> DEFINE R == OpToRel(<, Nat)
<1>1. IsWellFoundedOn(R, Nat)
  BY NatLessThanWellFounded, Zenon
<1>2. \A x, y \in Nat : y < x => <<y, x>> \in R
  BY Zenon DEF OpToRel
<1> HIDE DEF R
<1>3. PICK x \in T : \A y \in T : ~(<<y, x>> \in R)
  BY <1>1, WFMin
<1>4. ASSUME NEW y \in T PROVE x <= y
  <2>1. x \in Nat /\ y \in Nat /\ ~(y < x)
    BY <1>2, <1>3
  <2> QED BY <2>1
<1> QED BY <1>4

\* Order between neighbours is enough: the first task is the nearest.
LEMMA RootLeast ==
  ASSUME NEW h, IsHeap(h), Ordered(h), NEW m \in 1..Len(h.q)
  PROVE  When(h, 1) <= When(h, m)
<1> DEFINE n == Len(h.q)
           Early == {j \in 1..n : ~(When(h, 1) <= When(h, j))}
<1>1. n \in Nat /\ \A j \in 1..n : When(h, j) \in Nat
  BY HeapTypes
<1> SUFFICES ASSUME Early # {} PROVE FALSE
  BY DEF Early
<1>2. Early \in SUBSET Nat
  BY <1>1
<1>3. PICK j \in Early : \A i \in Early : j <= i
  BY <1>2, LeastNumber
<1>4. j \in 2..n
  BY <1>1, <1>3
<1>5. j \div 2 \in 1..j-1 /\ j \div 2 \in 1..n /\ j \in Nat
  BY <1>1, <1>4, Halves
<1>6. j \div 2 \notin Early
  BY <1>3, <1>5
<1>7. When(h, 1) <= When(h, j \div 2) /\ When(h, j \div 2) <= When(h, j)
  BY <1>4, <1>5, <1>6 DEF Ordered
<1>8. ~(When(h, 1) <= When(h, j)) /\ 1 \in 1..n /\ j \in 1..n
  BY <1>1, <1>3
<1>9. When(h, 1) \in Nat /\ When(h, j) \in Nat /\ When(h, j \div 2) \in Nat
  BY <1>1, <1>5, <1>8
<1> QED BY <1>7, <1>8, <1>9

\* An empty heap has nothing to move.
LEMMA SinkEmpty ==
  ASSUME NEW h, IsHeap(h), Len(h.q) = 0, NEW g \in FixDown(h, 1)
  PROVE  Rearranged(g, h) /\ Ordered(g)
<1>1. PICK w \in Paths(1, 0) :
        /\ Sinks(h, 1, w)
        /\ g = Moved(h, [m \in w.places |-> IF m = w.last THEN 1 ELSE Kid(h, m)])
  BY DEF FixDown
<1>2. w.places = {1} /\ w.last = 1
  BY <1>1 DEF Paths, Sinks, IsPath
<1> DEFINE from == [m \in w.places |-> IF m = w.last THEN 1 ELSE Kid(h, m)]
<1>3. DOMAIN from = {1} /\ from[1] = 1
  BY <1>2
<1> HIDE DEF from
<1>4. DOMAIN h.q = {} /\ h.q = <<>>
  BY HeapTypes DEF IsHeap
<1>5. g = Moved(h, from)
  BY <1>1 DEF from
<1>6. g.q = [m \in {} |-> IF m \in DOMAIN from THEN h.q[from[m]] ELSE h.q[m]]
  BY <1>4, <1>5 DEF Moved
<1>7. g.t = h.t
  <2>1. g.t = [id \in DOMAIN h.t |-> h.t[id]]
    BY <1>3, <1>5 DEF Moved
  <2> QED BY <2>1 DEF IsHeap
<1>8. g.q = <<>> /\ Len(g.q) = 0
  BY <1>6
<1> QED BY <1>4, <1>7, <1>8 DEF Rearranged, SameTasks, IsHeap, InQueue, Ordered
-----------------------------------------------------------------------------
\* The loops come to an end, whatever the order of the tasks: the longest way
\* that FixUp's comparisons allow cannot be continued.
LEMMA ClimbExists ==
  ASSUME NEW h, IsHeap(h), Len(h.q) # 0
  PROVE  FixUp(h, Len(h.q)) # {}
<1> DEFINE k == Len(h.q)
           Way(S, j) == /\ S \in SUBSET (j..k) /\ IsPath(S, j, k)
                        /\ \A m \in S \ {j} : When(h, m \div 2) > When(h, k)
           Starts == {j \in 1..k : \E S \in SUBSET (1..k) : Way(S, j)}
<1>1. k \in Nat \ {0}
  BY HeapTypes
<1> HIDE DEF k
<1>2. k \in Starts
  <2>1. IsPath({k}, k, k) /\ {k} \in SUBSET (k..k) /\ {k} \in SUBSET (1..k)
    BY <1>1 DEF IsPath
  <2> QED BY <1>1, <2>1
<1>3. PICK j \in Starts : \A i \in Starts : j <= i
  <2>1. Starts \in SUBSET Nat /\ Starts # {}
    BY <1>1, <1>2
  <2> HIDE DEF Starts
  <2> QED BY <2>1, LeastNumber
<1>4. PICK S \in SUBSET (1..k) : Way(S, j)
  BY <1>3
<1>5. j \in 1..k /\ j \in Nat /\ j \in S /\ k \in S
  BY <1>1, <1>3, <1>4 DEF IsPath
<1> DEFINE p == j \div 2
           T == S \cup {p}
<1>6. CASE j # 1 /\ When(h, p) > When(h, k)
  <2>1. p \in 1..j-1 /\ p \in Nat /\ (j = 2 * p \/ j = 2 * p + 1) /\ p # k /\ p \in 1..k
    BY <1>1, <1>5, <1>6, Halves
  <2>2. \A m \in S : m \in Nat \ {0} /\ m >= j /\ m <= k
    BY <1>4, <1>5
  <2>3. \A m \in S \ {j} : m \div 2 \in S
    BY <1>4 DEF IsPath
  <2>4. \A m \in S \ {k} : (2 * m \in S) # (2 * m + 1 \in S)
    BY <1>4 DEF IsPath
  <2> HIDE DEF p
  <2>5. \A m \in T \ {p} : m \div 2 \in T
    BY <2>3 DEF p
  <2>6. \A m \in T \ {k} : (2 * m \in T) # (2 * m + 1 \in T)
    <3> SUFFICES ASSUME NEW m \in T \ {k} PROVE (2 * m \in T) # (2 * m + 1 \in T)
      OBVIOUS
    <3>1. CASE m \in S
      <4>1. 2 * m # p /\ 2 * m + 1 # p
        BY <2>1, <2>2, <3>1
      <4> QED BY <2>4, <3>1, <4>1
    <3>2. CASE m = p
      <4>1. (2 * p \in S) # (2 * p + 1 \in S)
        <5>1. p \notin S
          BY <2>1, <2>2
        <5>2. \A c \in S : c = 2 * p \/ c = 2 * p + 1 => c = j
          <6> SUFFICES ASSUME NEW c \in S, c = 2 * p \/ c = 2 * p + 1, c # j PROVE FALSE
            OBVIOUS
          <6>1. c \div 2 = p
            BY <2>1, Halves
          <6> QED BY <2>3, <5>1, <6>1
        <5>3. 2 * p # 2 * p + 1
          BY <2>1
        <5> QED BY <1>5, <2>1, <5>2, <5>3
      <4>2. 2 * p # p /\ 2 * p + 1 # p
        BY <2>1
      <4> QED BY <3>2, <4>1, <4>2
    <3> QED BY <3>1, <3>2
  <2>7. IsPath(T, p, k)
    BY <1>5, <2>5, <2>6 DEF IsPath
  <2>8. T \in SUBSET (p..k) /\ T \in SUBSET (1..k)
    BY <1>1, <2>1, <2>2
  <2>9. \A m \in T \ {p} : When(h, m \div 2) > When(h, k)
    BY <1>4, <1>6 DEF p
  <2>10. p \in Starts
    BY <2>1, <2>7, <2>8, <2>9
  <2> QED BY <1>3, <1>5, <2>1, <2>10
<1>7. CASE ~(j # 1 /\ When(h, p) > When(h, k))
  <2> DEFINE w == [places |-> S, last |-> j]
  <2>1. w \in Paths(k, k)
    BY <1>4, <1>5 DEF Paths
  <2>2. j = 1 \/ When(h, j \div 2) <= When(h, k)
    <3> SUFFICES ASSUME j # 1 PROVE When(h, p) <= When(h, k)
      OBVIOUS
    <3>1. p \in 1..k /\ k \in 1..k
      BY <1>1, <1>5, Halves
    <3>2. When(h, p) \in Nat /\ When(h, k) \in Nat
      BY <3>1, HeapTypes DEF k
    <3> QED BY <1>7, <3>2
  <2>3. Climbs(h, k, w)
    BY <1>4, <2>2 DEF Climbs
  <2> QED BY <2>1, <2>3 DEF FixUp, k
<1> QED BY <1>6, <1>7

LEMMA SinkExists ==
  ASSUME NEW h, IsHeap(h)
  PROVE  FixDown(h, 1) # {}
<1> DEFINE n == Len(h.q)
           k == IF n = 0 THEN 1 ELSE n
           Way(S, j) == /\ S \in SUBSET (1..j) /\ IsPath(S, 1, j)
                        /\ \A m \in S \ {1} : m = Kid(h, m \div 2) /\ When(h, m) < When(h, 1)
           Bottoms == {i \in 0..k-1 : \E S \in SUBSET (1..k) : Way(S, k - i)}
<1>1. n \in Nat /\ k \in Nat \ {0} /\ n <= k /\ 1..k = {1} \cup 1..n
  BY HeapTypes
<1> HIDE DEF n, k
<1>2. Bottoms # {}
  <2>1. IsPath({1}, 1, 1) /\ {1} \in SUBSET (1..1) /\ {1} \in SUBSET (1..k)
    BY <1>1 DEF IsPath
  <2>2. k - 1 \in 0..k-1 /\ k - (k - 1) = 1
    BY <1>1
  <2>3. k - 1 \in Bottoms
    BY <2>1, <2>2
  <2> QED BY <2>3
<1>3. PICK e \in Bottoms : \A i \in Bottoms : e <= i
  <2>1. Bottoms \in SUBSET Nat
    BY <1>1
  <2> HIDE DEF Bottoms
  <2> QED BY <1>2, <2>1, LeastNumber
<1> DEFINE j == k - e
<1>4. PICK S \in SUBSET (1..k) : Way(S, j)
  BY <1>3
<1>5. e \in 0..k-1 /\ e = k - j /\ j \in 1..k /\ j \in Nat \ {0} /\ j \in S /\ 1 \in S
  BY <1>1, <1>3, <1>4 DEF IsPath
<1> DEFINE c == Kid(h, j)
           T == S \cup {c}
<1> HIDE DEF j
<1>6. c \in Nat \ {0, 1} /\ c \div 2 = j /\ (c = 2 * j \/ c = 2 * j + 1)
  BY <1>5, KidLeast DEF Kid
<1>7. CASE c <= n /\ When(h, c) < When(h, 1)
  <2>1. c \in 1..k /\ c > j /\ k - c \in 0..k-1 /\ k - c < e /\ k - (k - c) = c
    BY <1>1, <1>5, <1>6, <1>7
  <2>2. \A m \in S : m \in Nat \ {0} /\ m <= j
    BY <1>4, <1>5
  <2>3. /\ \A m \in S \ {1} : m \div 2 \in S
        /\ \A m \in S \ {j} : (2 * m \in S) # (2 * m + 1 \in S)
    BY <1>4 DEF IsPath
  <2>4. \A m \in T \ {1} : m \div 2 \in T
    BY <1>5, <1>6, <2>3
  <2>5. \A m \in T \ {c} : (2 * m \in T) # (2 * m + 1 \in T)
    <3> SUFFICES ASSUME NEW m \in S PROVE (2 * m \in T) # (2 * m + 1 \in T)
      OBVIOUS
    <3>1. CASE m = j
      <4>1. 2 * j \notin S /\ 2 * j + 1 \notin S /\ 2 * j # 2 * j + 1
        BY <1>5, <2>2
      <4> HIDE DEF c
      <4> QED BY <1>6, <3>1, <4>1
    <3>2. CASE m # j
      <4>1. 2 * m # c /\ 2 * m + 1 # c
        <5>1. (2 * m) \div 2 = m /\ (2 * m + 1) \div 2 = m
          BY <2>2, Halves
        <5> QED BY <1>6, <3>2, <5>1
      <4> QED BY <2>3, <3>2, <4>1
    <3> QED BY <3>1, <3>2
  <2>6. IsPath(T, 1, c)
    BY <1>5, <2>4, <2>5 DEF IsPath
  <2>7. T \in SUBSET (1..c) /\ T \in SUBSET (1..k)
    <3> HIDE DEF c
    <3>1. \A m \in S : m \in 1..c
      BY <1>5, <1>6, <2>1, <2>2
    <3> QED BY <1>6, <2>1, <3>1
  <2>8. \A m \in T \ {1} : m = Kid(h, m \div 2) /\ When(h, m) < When(h, 1)
    BY <1>4, <1>6, <1>7
  <2>9. Way(T, c)
    BY <2>6, <2>7, <2>8
  <2>10. k - c \in Bottoms
    BY <2>1, <2>7, <2>9
  <2> QED BY <1>3, <1>5, <2>1, <2>10
<1>8. CASE ~(c <= n /\ When(h, c) < When(h, 1))
  <2> DEFINE w == [places |-> S, last |-> j]
  <2>1. w \in Paths(1, n)
    BY <1>1, <1>4, <1>5 DEF Paths
  <2>2. 2 * j > n \/ When(h, 1) <= When(h, c)
    <3> SUFFICES ASSUME ~(2 * j > n) PROVE When(h, 1) <= When(h, c)
      OBVIOUS
    <3>1. 2 * j \in 2..n /\ (2 * j) \div 2 = j
      BY <1>1, <1>5, Halves
    <3>2. c \in 2..n
      BY <1>5, <3>1, KidLeast DEF n
    <3> HIDE DEF c
    <3>3. c <= n /\ c \in 1..n /\ 1 \in 1..n
      BY <1>1, <3>2
    <3>4. When(h, 1) \in Nat /\ When(h, c) \in Nat
      BY <3>3, HeapTypes DEF n
    <3> QED BY <1>8, <3>3, <3>4
  <2>3. Sinks(h, 1, w)
    BY <1>4, <2>2 DEF Sinks, n
  <2> QED BY <2>1, <2>3 DEF FixDown, n
<1> QED BY <1>7, <1>8
-----------------------------------------------------------------------------
\* What the operations make of a heap in order.
LEMMA AddHeap ==
  ASSUME NEW h, IsHeap(h), Ordered(h),
         NEW id \in DOMAIN h.t, id \in IDs, id \notin InQueue(h)
  PROVE  /\ Add(h, id) # {}
         /\ \A g \in Add(h, id) :
              /\ IsHeap(g) /\ Ordered(g) /\ SameTasks(g, h)
              /\ Len(g.q) = Len(h.q) + 1 /\ InQueue(g) = InQueue(h) \cup {id}
<1> DEFINE n == Len(h.q)
           k == n + 1
           f == [q |-> Append(h.q, id), t |-> [h.t EXCEPT ![id].index = k]]
<1>1. n \in Nat /\ \A m \in 1..n : h.q[m] \in DOMAIN h.t /\ h.q[m] # id
  BY HeapTypes DEF IsHeap, InQueue
<1>2. /\ f.q \in Seq(IDs) /\ Len(f.q) = k
      /\ \A m \in 1..n : f.q[m] = h.q[m]
      /\ f.q[k] = id
  BY <1>1, AppendProperties DEF IsHeap
<1>3. /\ DOMAIN f.t = DOMAIN h.t
      /\ \A i \in DOMAIN h.t : i # id => f.t[i] = h.t[i]
      /\ f.t[id] = [h.t[id] EXCEPT !.index = k]
  BY DEF IsHeap
<1>4. \A i \in DOMAIN h.t : h.t[i] \in TaskRecord
  BY DEF IsHeap
<1>5. f.t[id] \in TaskRecord /\ f.t[id].index = k /\ f.t[id].next = h.t[id].next
      /\ f.t[id].state = h.t[id].state /\ f.t[id].period = h.t[id].period
  BY <1>1, <1>3, <1>4 DEF TaskRecord
<1>6. f.t \in [DOMAIN f.t -> TaskRecord]
  BY <1>3, <1>4, <1>5
<1>7. Add(h, id) = FixUp(f, Len(f.q))
  BY <1>2 DEF Add
<1> HIDE DEF f
<1>8. SameTasks(f, h)
  BY <1>3, <1>5 DEF SameTasks
<1>9. IsHeap(f)
  <2> SUFFICES ASSUME NEW m \in 1..k PROVE f.q[m] \in DOMAIN f.t /\ f.t[f.q[m]].index = m
    BY <1>2, <1>6 DEF IsHeap
  <2>1. CASE m = k
    BY <1>2, <1>3, <1>5, <2>1
  <2>2. CASE m # k
    <3>1. m \in 1..n
      BY <1>1, <2>2
    <3> QED BY <1>1, <1>2, <1>3, <3>1 DEF IsHeap
  <2> QED BY <2>1, <2>2
<1>10. \A m \in 1..n : When(f, m) = When(h, m)
  BY <1>1, <1>2, <1>3 DEF When
<1>11. \A m \in 2..Len(f.q)-1 : When(f, m \div 2) <= When(f, m)
  <2> SUFFICES ASSUME NEW m \in 2..n PROVE When(f, m \div 2) <= When(f, m)
    BY <1>1, <1>2
  <2>1. m \div 2 \in 1..n /\ m \in 1..n
    BY <1>1, Halves
  <2> QED BY <1>10, <2>1 DEF Ordered
<1>12. FixUp(f, Len(f.q)) # {} /\ \A g \in FixUp(f, Len(f.q)) : Rearranged(g, f) /\ Ordered(g)
  <2>1. Len(f.q) # 0
    BY <1>1, <1>2
  <2> QED BY <1>9, <1>11, <2>1, ClimbOrders, ClimbExists
<1>13. InQueue(f) = InQueue(h) \cup {id}
  <2> HIDE DEF k
  <2>1. \A x : x \in InQueue(f) <=> \E m \in 1..k : f.q[m] = x
    BY <1>2 DEF InQueue
  <2>2. \A x : x \in InQueue(h) <=> \E m \in 1..n : h.q[m] = x
    BY DEF InQueue
  <2>3. \A m : m \in 1..k <=> m \in 1..n \/ m = k
    BY <1>1 DEF k
  <2> QED BY <1>2, <2>1, <2>2, <2>3
<1> QED BY <1>2, <1>7, <1>8, <1>12, <1>13 DEF Rearranged, SameTasks

LEMMA RescheduleHeap ==
  ASSUME NEW h, IsHeap(h), Ordered(h), Len(h.q) # 0, NEW time \in Nat
  PROVE  /\ RescheduleMin(h, time) # {}
         /\ \A g \in RescheduleMin(h, time) :
              /\ IsHeap(g) /\ Ordered(g) /\ DOMAIN g.t = DOMAIN h.t
              /\ Len(g.q) = Len(h.q) /\ InQueue(g) = InQueue(h)
              /\ \A id \in DOMAIN h.t : /\ g.t[id].state = h.t[id].state
                                        /\ g.t[id].period = h.t[id].period
<1> DEFINE n == Len(h.q)
           min == h.q[1]
           f == [q |-> h.q, t |-> [h.t EXCEPT ![min].next = time]]
<1>1. n \in Nat \ {0} /\ \A m \in 1..n : h.q[m] \in DOMAIN h.t /\ h.t[h.q[m]].index = m
  BY HeapTypes DEF IsHeap
<1>2. \A id \in DOMAIN h.t : h.t[id] \in TaskRecord
  BY DEF IsHeap
<1>3. /\ f.q = h.q /\ f.q \in Seq(IDs) /\ DOMAIN f.t = DOMAIN h.t
      /\ \A id \in DOMAIN h.t : id # min => f.t[id] = h.t[id]
      /\ f.t[min] = [h.t[min] EXCEPT !.next = time]
  BY <1>1 DEF IsHeap
<1>4. min \in DOMAIN h.t
  BY <1>1
<1>5. /\ f.t[min] \in TaskRecord /\ f.t[min].index = h.t[min].index
      /\ f.t[min].state = h.t[min].state /\ f.t[min].period = h.t[min].period
  BY <1>2, <1>3, <1>4 DEF TaskRecord
<1>6. RescheduleMin(h, time) = FixDown(f, 1)
  BY DEF RescheduleMin
<1> HIDE DEF f
<1>7. \A id \in DOMAIN h.t : /\ f.t[id] \in TaskRecord /\ f.t[id].index = h.t[id].index
                             /\ f.t[id].state = h.t[id].state /\ f.t[id].period = h.t[id].period
  BY <1>2, <1>3, <1>5
<1>8. IsHeap(f)
  <2>1. f.t \in [DOMAIN f.t -> TaskRecord]
    <3>1. f.t = [id \in DOMAIN h.t |-> f.t[id]]
      BY DEF f
    <3> QED BY <1>3, <1>7, <3>1
  <2> QED BY <1>1, <1>3, <1>7, <2>1 DEF IsHeap
<1>9. \A m \in 2..n : When(f, m) = When(h, m)
  <2> SUFFICES ASSUME NEW m \in 2..n PROVE When(f, m) = When(h, m)
    OBVIOUS
  <2>1. m \in 1..n /\ 1 \in 1..n /\ m # 1
    BY <1>1
  <2>2. h.q[m] # min /\ h.q[m] \in DOMAIN h.t
    BY <1>1, <2>1
  <2> QED BY <1>3, <2>2 DEF When
<1>10. \A m \in 2..Len(f.q) : m \div 2 # 1 => When(f, m \div 2) <= When(f, m)
  <2> SUFFICES ASSUME NEW m \in 2..n, m \div 2 # 1 PROVE When(f, m \div 2) <= When(f, m)
    BY <1>3
  <2>1. m \div 2 \in 2..n
    BY <1>1, Halves
  <2> QED BY <1>9, <2>1 DEF Ordered
<1>11. FixDown(f, 1) # {} /\ \A g \in FixDown(f, 1) : Rearranged(g, f) /\ Ordered(g)
  BY <1>1, <1>3, <1>8, <1>10, SinkOrders, SinkExists
<1>12. InQueue(f) = InQueue(h)
  BY <1>3 DEF InQueue
<1> QED BY <1>3, <1>6, <1>7, <1>11, <1>12 DEF Rearranged, SameTasks

LEMMA RemoveHeap ==
  ASSUME NEW h, IsHeap(h), Ordered(h), Len(h.q) # 0
  PROVE  /\ RemoveMin(h) # {}
         /\ \A g \in RemoveMin(h) :
              /\ IsHeap(g) /\ Ordered(g) /\ SameTasks(g, h)
              /\ Len(g.q) = Len(h.q) - 1 /\ InQueue(g) = InQueue(h) \ {h.q[1]}
<1> DEFINE n == Len(h.q)
           last == h.q[n]
           r == [h.q EXCEPT ![1] = last]
           f == [q |-> SubSeq(r, 1, n - 1), t |-> [h.t EXCEPT ![last].index = 1]]
<1>1. n \in Nat \ {0} /\ 1 \in 1..n /\ n \in 1..n
  BY HeapTypes
<1>2. \A m \in 1..n : h.q[m] \in IDs /\ h.q[m] \in DOMAIN h.t /\ h.t[h.q[m]].index = m
  BY HeapTypes DEF IsHeap
<1>3. \A m \in 1..n : r[m] = IF m = 1 THEN last ELSE h.q[m]
  BY HeapTypes
<1>4. f.q = SubSeq(r, 1, n - 1) /\ f.t = [h.t EXCEPT ![last].index = 1]
  OBVIOUS
<1>5. RemoveMin(h) = FixDown(f, 1)
  BY DEF RemoveMin
<1> HIDE DEF f, r
<1>6. /\ f.q \in Seq(IDs) /\ Len(f.q) = n - 1
      /\ \A m \in 1..n-1 : f.q[m] = IF m = 1 THEN last ELSE h.q[m]
  <2>1. \A m \in 1..n-1 : m \in 1..n /\ r[m] \in IDs
    BY <1>1, <1>2, <1>3
  <2>2. /\ SubSeq(r, 1, n - 1) \in Seq(IDs)
        /\ Len(SubSeq(r, 1, n - 1)) = IF 1 <= n - 1 THEN (n - 1) - 1 + 1 ELSE 0
        /\ \A m \in 1..(n - 1) - 1 + 1 : SubSeq(r, 1, n - 1)[m] = r[1 + m - 1]
    BY <1>1, <2>1, SubSeqProperties
  <2> HIDE DEF last, n
  <2>3. \A m \in 1..n-1 : m \in 1..(n - 1) - 1 + 1 /\ 1 + m - 1 = m
    BY <1>1
  <2>4. \A m \in 1..n-1 : SubSeq(r, 1, n - 1)[m] = r[m]
    BY <2>2, <2>3
  <2> QED BY <1>1, <1>3, <1>4, <2>1, <2>2, <2>4
<1>7. \A id \in DOMAIN h.t : h.t[id] \in TaskRecord
  BY DEF IsHeap
<1>8. /\ DOMAIN f.t = DOMAIN h.t /\ f.t = [id \in DOMAIN h.t |-> f.t[id]]
      /\ \A id \in DOMAIN h.t : id # last => f.t[id] = h.t[id]
      /\ f.t[last] = [h.t[last] EXCEPT !.index = 1]
  BY <1>1, <1>2, <1>4 DEF IsHeap
<1>9. last \in DOMAIN h.t
  BY <1>1, <1>2
<1>10. /\ f.t[last] \in TaskRecord /\ f.t[last].index = 1 /\ f.t[last].next = h.t[last].next
       /\ f.t[last].state = h.t[last].state /\ f.t[last].period = h.t[last].period
  BY <1>7, <1>8, <1>9 DEF TaskRecord
<1>11. SameTasks(f, h)
  BY <1>8, <1>10 DEF SameTasks
<1>12. \A m \in 1..n-1 : m \in 1..n /\ m # n /\ h.q[m] # last
  BY <1>1, <1>2
<1>13. IsHeap(f)
  <2>1. f.t \in [DOMAIN f.t -> TaskRecord]
    BY <1>7, <1>8, <1>10
  <2>2. ASSUME NEW m \in 1..n-1 PROVE f.q[m] \in DOMAIN f.t /\ f.t[f.q[m]].index = m
    <3>1. CASE m = 1
      BY <1>6, <1>8, <1>9, <1>10, <3>1
    <3>2. CASE m # 1
      <4>1. f.q[m] = h.q[m] /\ h.q[m] # last /\ m \in 1..n
        BY <1>6, <1>12, <3>2
      <4>2. h.q[m] \in DOMAIN h.t /\ h.t[h.q[m]].index = m
        BY <1>2, <4>1
      <4>3. f.t[h.q[m]] = h.t[h.q[m]] /\ DOMAIN f.t = DOMAIN h.t
        BY <1>8, <4>1, <4>2
      <4> HIDE DEF last
      <4> QED BY <4>1, <4>2, <4>3
    <3> QED BY <3>1, <3>2
  <2> QED BY <1>6, <2>1, <2>2 DEF IsHeap
<1>14. \A m \in 2..n-1 : When(f, m) = When(h, m)
  <2> SUFFICES ASSUME NEW m \in 2..n-1 PROVE When(f, m) = When(h, m)
    OBVIOUS
  <2>1. m \in 1..n-1 /\ m # 1
    BY <1>1
  <2> QED BY <1>2, <1>6, <1>8, <1>12, <2>1 DEF When
<1>15. \A m \in 2..Len(f.q) : m \div 2 # 1 => When(f, m \div 2) <= When(f, m)
  <2> SUFFICES ASSUME NEW m \in 2..n-1, m \div 2 # 1 PROVE When(f, m \div 2) <= When(f, m)
    BY <1>6
  <2>1. m \div 2 \in 2..n-1 /\ m \in 2..n
    BY <1>1, Halves
  <2> QED BY <1>14, <2>1 DEF Ordered
<1>16. FixDown(f, 1) # {} /\ \A g \in FixDown(f, 1) : Rearranged(g, f) /\ Ordered(g)
  BY <1>13, <1>15, SinkOrders, SinkEmpty, SinkExists
<1>17. InQueue(f) = InQueue(h) \ {h.q[1]}
  <2>1. \A x : x \in InQueue(f) <=> \E m \in 1..n-1 : f.q[m] = x
    BY <1>6 DEF InQueue
  <2>2. \A x : x \in InQueue(h) <=> \E m \in 1..n : h.q[m] = x
    BY DEF InQueue
  <2>3. ASSUME NEW x \in InQueue(f) PROVE x \in InQueue(h) /\ x # h.q[1]
    <3>1. PICK m \in 1..n-1 : f.q[m] = x
      BY <2>1
    <3>2. CASE m = 1
      BY <1>1, <1>6, <1>12, <2>2, <3>1, <3>2
    <3>3. CASE m # 1
      <4>1. x = h.q[m] /\ m \in 1..n /\ h.t[x].index = m /\ h.t[h.q[1]].index = 1
        BY <1>1, <1>2, <1>6, <1>12, <3>1, <3>3
      <4> QED BY <2>2, <3>3, <4>1
    <3> QED BY <3>2, <3>3
  <2>4. ASSUME NEW x \in InQueue(h), x # h.q[1] PROVE x \in InQueue(f)
    <3>1. PICK m \in 1..n : h.q[m] = x
      BY <2>2
    <3>2. CASE m = n
      <4>1. 1 \in 1..n-1 /\ f.q[1] = x
        BY <1>1, <1>6, <2>4, <3>1, <3>2
      <4> QED BY <2>1, <4>1
    <3>3. CASE m # n
      <4>1. m \in 1..n-1 /\ m # 1
        BY <1>1, <2>4, <3>1, <3>3
      <4> QED BY <1>6, <2>1, <3>1, <4>1
    <3> QED BY <3>2, <3>3
  <2> QED BY <2>3, <2>4
<1> QED BY <1>5, <1>6, <1>11, <1>16, <1>17 DEF Rearranged, SameTasks
-----------------------------------------------------------------------------
(***************************************************************************)
(* The invariant.                                                          *)
(***************************************************************************)
Types ==
  /\ now \in 0..MaxNow /\ schedules \in 0..MaxSchedules
  /\ Scheduled \subseteq IDs /\ task \in [Scheduled -> TaskRecord]
  /\ capacity \in Nat /\ Len(queue) < capacity
  /\ event \in Nat \cup {NONE} /\ slip \in Nat
  /\ phase \in {"idle", "routine", "run"} /\ running \in IDs \cup {NONE}

\* Routine holds one task while it runs it, and none otherwise.
Hands == IF phase = "run" THEN running \in Scheduled ELSE running = NONE

\* The heap is in order and holds the tasks that are still to run.
Kept ==
  /\ IsHeap(Heap) /\ Ordered(Heap)
  /\ InQueue(Heap) = {id \in Scheduled : id # running \/ task[id].period > 0}

\* While the loop waits, there is an event if and only if there is a task.
\* It is late by no more than passed before it was set.
Waits ==
  phase = "idle" =>
    IF queue = <<>> THEN event = NONE ELSE event \in Nat /\ event <= Time(queue[1]) + slip

HeapInv == Types /\ Hands /\ Kept /\ Waits

\* What the invariant says of the queue.
LEMMA QueueFacts ==
  ASSUME IsHeap(Heap)
  PROVE  /\ queue \in Seq(IDs) /\ Len(queue) \in Nat /\ DOMAIN queue = 1..Len(queue)
         /\ queue = <<>> <=> Len(queue) = 0
         /\ \A k \in 1..Len(queue) : queue[k] \in Scheduled /\ Time(queue[k]) = When(Heap, k)
         /\ Heap.q = queue /\ Heap.t = task
BY HeapTypes, EmptySeq DEF IsHeap, Heap, When, Time, Scheduled

LEMMA HeapInvInit ==
  ASSUME TimerInit
  PROVE  HeapInv
<1> USE DEF TimerInit
<1>1. Scheduled = {} /\ task \in [Scheduled -> TaskRecord]
  BY DEF Scheduled
<1>2. IsHeap(Heap) /\ Ordered(Heap) /\ InQueue(Heap) = {} /\ Len(queue) = 0
  BY <1>1 DEF IsHeap, Heap, Ordered, InQueue, Scheduled
<1>3. Types
  BY <1>1, <1>2, TimerAssumption DEF Types
<1> QED BY <1>1, <1>2, <1>3 DEF HeapInv, Hands, Kept, Waits

\* The invariant gives what the properties say.
LEMMA HeapInvConsistent ==
  ASSUME HeapInv
  PROVE  HeapConsistent /\ Armed
<1> USE DEF HeapInv, Types, Kept
<1>1. TimerTypeOK
  <2>1. \A id \in Scheduled : task[id] \in TaskRecord
    OBVIOUS
  <2> QED BY <2>1, QueueFacts DEF TimerTypeOK, TaskRecord
<1>2. HeapOrder
  <2> SUFFICES ASSUME NEW k \in 2..Len(queue)
               PROVE  Time(queue[k \div 2]) <= Time(queue[k])
    BY DEF HeapOrder
  <2>1. k \in 1..Len(queue) /\ k \div 2 \in 1..Len(queue)
    BY QueueFacts, Halves
  <2>2. When(Heap, k \div 2) <= When(Heap, k)
    BY QueueFacts DEF Ordered
  <2> QED BY <2>1, <2>2, QueueFacts
<1>3. PlacesKnown
  <2>1. \A k \in 1..Len(queue) : task[queue[k]].index = k
    BY QueueFacts DEF IsHeap
  <2>2. {queue[k] : k \in DOMAIN queue} = InQueue(Heap)
    BY QueueFacts DEF InQueue
  <2> QED BY <2>1, <2>2, QueueFacts DEF PlacesKnown
<1>4. Armed
  <2> SUFFICES ASSUME phase = "idle", queue # <<>>, NEW k \in 1..Len(queue)
               PROVE  event # NONE /\ event <= Time(queue[k]) + slip
    BY QueueFacts DEF Armed
  <2>1. event \in Nat /\ slip \in Nat /\ event <= Time(queue[1]) + slip
    BY DEF Waits
  <2>2. Time(queue[1]) <= Time(queue[k]) /\ 1 \in 1..Len(queue)
    BY QueueFacts, RootLeast
  <2>3. Time(queue[1]) \in Nat /\ Time(queue[k]) \in Nat
    BY <2>2, QueueFacts, HeapTypes
  <2> QED BY <2>1, <2>2, <2>3, TimerAssumption
<1> QED BY <1>1, <1>2, <1>3, <1>4 DEF HeapConsistent

LEMMA Product ==
  ASSUME NEW a \in Nat \ {0}, NEW b \in Nat \ {0}
  PROVE  a * b \in Nat \ {0} /\ a <= a * b
<1>1. a * b = a + a * (b - 1) /\ a * (b - 1) \in Nat
  OBVIOUS
<1> QED BY <1>1

\* The next queue and tasks are those of g.
LEMMA HeapNext ==
  ASSUME NEW g, IsHeap(g), Ordered(g), queue' = g.q, task' = g.t
  PROVE  /\ IsHeap(Heap)' /\ Ordered(Heap)' /\ InQueue(Heap)' = InQueue(g)
         /\ Scheduled' = DOMAIN g.t /\ task' \in [Scheduled' -> TaskRecord]
BY DEF IsHeap, Ordered, InQueue, When, Heap, Scheduled

\* Routine's task is scheduled, or NONE, which is no id.
LEMMA RunningFacts ==
  ASSUME Types, Hands
  PROVE  NONE \notin IDs /\ (running \in IDs => running \in Scheduled)
BY TimerAssumption DEF Types, Hands, IDs

LEMMA EnteredFacts ==
  ASSUME Types, Kept, NEW id \in IDs \ Scheduled, NEW rec \in TaskRecord, NEW h, h = Entered(id, rec)
  PROVE  /\ IsHeap(h) /\ Ordered(h) /\ InQueue(h) = InQueue(Heap) /\ InQueue(h) \subseteq Scheduled
         /\ h.q = queue /\ DOMAIN h.t = Scheduled \cup {id} /\ h.t[id] = rec
         /\ \A i \in Scheduled : h.t[i] = task[i]
<1>1. /\ h.q = queue /\ DOMAIN h.t = Scheduled \cup {id} /\ h.t[id] = rec
      /\ \A i \in Scheduled : h.t[i] = task[i] /\ h.t[i] \in TaskRecord
      /\ h.t \in [DOMAIN h.t -> TaskRecord]
  BY DEF Types, Entered
<1>2. \A m \in 1..Len(queue) : queue[m] \in Scheduled /\ When(h, m) = When(Heap, m)
  BY <1>1, QueueFacts DEF Kept, When
<1>3. \A m \in 1..Len(queue) : h.q[m] \in DOMAIN h.t /\ h.t[h.q[m]].index = m
  BY <1>1, <1>2, QueueFacts DEF Kept, IsHeap
<1>4. IsHeap(h)
  BY <1>1, <1>3, QueueFacts DEF Kept, IsHeap
<1>5. \A m \in 2..Len(queue) : When(h, m \div 2) <= When(h, m)
  <2> SUFFICES ASSUME NEW m \in 2..Len(queue) PROVE When(h, m \div 2) <= When(h, m)
    OBVIOUS
  <2>1. m \in 1..Len(queue) /\ m \div 2 \in 1..Len(queue)
    BY QueueFacts, Halves DEF Kept
  <2> QED BY <1>2, <2>1, QueueFacts DEF Kept, Ordered
<1>6. InQueue(h) = InQueue(Heap) /\ InQueue(h) \subseteq Scheduled
  BY <1>1, <1>2, QueueFacts DEF Kept, InQueue
<1> QED BY <1>1, <1>4, <1>5, <1>6 DEF Ordered

\* The event is set: the clock may have moved meanwhile.
LEMMA SetEventFacts ==
  ASSUME now \in Nat, NEW m \in Nat, SetEvent(m)
  PROVE  /\ now' \in 0..MaxNow /\ slip' \in Nat
         /\ event' = now + slip' + m /\ event' \in Nat
BY TimerAssumption DEF SetEvent, Elapsed

LEMMA NotLater ==
  ASSUME NEW n \in Nat, NEW m \in Nat, NEW e \in Nat, NEW u \in Nat, n + m <= u,
         NEW t \in Nat, t > u, NEW v \in Nat, t <= v
  PROVE  n + e + m \in Nat /\ n + e + m <= v + e
OBVIOUS

\* One step of the timer, action by action.
LEMMA ScheduleKeeps ==
  ASSUME HeapInv, NEW id \in IDs, NEW d \in Delays, id \in GenerateTimerTaskID, Schedule(id, d)
  PROVE  HeapInv'
<1> DEFINE due == now + Millis(d)
           rec == NewTask(d)
           h == Entered(id, rec)
<1>1. /\ Types /\ Hands /\ Kept /\ Waits
      /\ phase \in {"idle", "run"} /\ schedules < MaxSchedules /\ schedules' = schedules + 1
      /\ UNCHANGED <<phase, running, cancels>>
  BY DEF HeapInv, Schedule, May
<1>2. CASE id \in Scheduled /\ UNCHANGED <<now, task, queue, capacity, event, slip>>
  <2>1. Types'
    BY <1>1, <1>2, TimerAssumption DEF Types, Scheduled
  <2> QED BY <1>1, <1>2, <2>1 DEF HeapInv, Hands, Kept, Waits, Heap, IsHeap, Ordered, InQueue, When,
                                  Scheduled, Time
<1>3. CASE /\ id \notin Scheduled
           /\ OnScheduled(due, d[1])
           /\ capacity' = Grown(Len(queue))
           /\ Becomes(Add(h, id))
  <2>1. PICK g \in Add(h, id) : queue' = g.q /\ task' = g.t
    BY <1>3 DEF Becomes
  <2>2. /\ Millis(d) \in Nat \ {0} /\ d[1] \in Nat \ {0} /\ d[1] <= Millis(d)
        /\ now \in Nat /\ due \in Nat
    <3>1. d[1] \in Nat \ {0} /\ Unit[d[2]] \in Nat \ {0}
      BY TimerAssumption
    <3>2. Millis(d) \in Nat \ {0} /\ d[1] <= Millis(d)
      BY <3>1, Product DEF Millis
    <3>3. now \in Nat
      BY <1>1, TimerAssumption DEF Types
    <3> QED BY <3>1, <3>2, <3>3
  <2>3. rec \in TaskRecord /\ rec.next = due
    BY <2>2 DEF TaskRecord, NewTask, due
  <2> HIDE DEF due, rec, h
  <2>4. /\ IsHeap(h) /\ Ordered(h) /\ InQueue(h) = InQueue(Heap) /\ InQueue(h) \subseteq Scheduled
        /\ h.q = queue /\ DOMAIN h.t = Scheduled \cup {id} /\ h.t[id] = rec
        /\ \A i \in Scheduled : h.t[i] = task[i]
    BY <1>1, <1>3, <2>3, EnteredFacts DEF h
  <2>9. /\ IsHeap(g) /\ Ordered(g) /\ SameTasks(g, h)
        /\ Len(g.q) = Len(queue) + 1 /\ InQueue(g) = InQueue(Heap) \cup {id}
    BY <1>3, <2>1, <2>4, AddHeap
  <2>10. /\ IsHeap(Heap)' /\ Ordered(Heap)' /\ InQueue(Heap)' = InQueue(Heap) \cup {id}
         /\ Scheduled' = Scheduled \cup {id} /\ task' \in [Scheduled' -> TaskRecord]
    BY <2>1, <2>4, <2>9, HeapNext DEF SameTasks
  <2>11. /\ \A i \in Scheduled : task'[i].next = task[i].next /\ task'[i].period = task[i].period
         /\ task'[id].next = due
    BY <1>3, <2>1, <2>3, <2>4, <2>9 DEF SameTasks
  <2>12. /\ now' \in 0..MaxNow /\ slip' \in Nat /\ event' \in Nat \cup {NONE}
         /\ \/ UNCHANGED <<now, slip, event>>
            \/ event' = now + slip' + d[1]
    <3>1. CASE SetEvent(d[1])
      BY <2>2, <3>1, SetEventFacts
    <3>2. CASE UNCHANGED <<now, slip, event>>
      BY <1>1, <3>2 DEF Types
    <3> QED BY <1>3, <3>1, <3>2 DEF OnScheduled
  <2>13. capacity' \in Nat /\ Len(queue') < capacity'
    BY <1>1, <1>3, <2>1, <2>9, QueueFacts DEF Grown, Types, Kept
  <2>14. Types'
    BY <1>1, <2>10, <2>12, <2>13, TimerAssumption DEF Types
  <2>15. Hands'
    BY <1>1, <2>10 DEF Hands
  <2>16. Kept'
    <3>1. id # running
      BY <1>1, <1>3, RunningFacts
    <3> QED BY <1>1, <1>3, <2>10, <2>11, <3>1 DEF Kept
  <2>17. ASSUME phase = "idle" PROVE event' \in Nat /\ event' <= Time(queue[1])' + slip'
    <3>1. /\ queue = <<>> => event = NONE
          /\ queue # <<>> => event \in Nat /\ event <= Time(queue[1]) + slip
      BY <1>1, <2>17 DEF Waits
    <3>2. queue'[1] \in InQueue(Heap) \cup {id}
      <4>1. 1 \in 1..Len(g.q)
        BY <1>1, <2>9, QueueFacts DEF Kept
      <4>2. g.q[1] \in InQueue(g)
        BY <4>1 DEF InQueue
      <4> QED BY <2>1, <2>9, <4>2
    <3>3. /\ IF queue = <<>> \/ Time(queue[1]) > due THEN event' = now + slip' + d[1]
             ELSE event' = event /\ slip' = slip
          /\ queue # <<>> => Time(queue[1]) \in Nat
          /\ slip' \in Nat /\ slip \in Nat
      <4>1. queue # <<>> => Time(queue[1]) \in Nat /\ event # NONE
        BY <1>1, <3>1, QueueFacts, HeapTypes, TimerAssumption DEF Kept
      <4>2. slip' \in Nat /\ slip \in Nat
        BY <1>1, <2>12 DEF Types
      <4>3. SetEvent(d[1]) => event' = now + slip' + d[1]
        BY <2>2, SetEventFacts
      <4>4. IF queue = <<>> \/ Time(queue[1]) > due
            THEN SetEvent(d[1]) ELSE event' = event /\ slip' = slip
        <5>1. CASE queue = <<>> \/ Time(queue[1]) > due
          <6>1. event = NONE \/ queue # <<>>
            BY <3>1
          <6> QED BY <1>3, <5>1, <6>1 DEF OnScheduled
        <5>2. CASE ~(queue = <<>> \/ Time(queue[1]) > due)
          BY <1>3, <5>2 DEF OnScheduled
        <5> QED BY <5>1, <5>2
      <4> QED BY <4>1, <4>2, <4>3, <4>4
    <3>4. CASE queue'[1] = id
      <4>1. Time(queue[1])' = due
        BY <2>11, <3>4 DEF Time
      <4>2. now + d[1] <= due /\ now + d[1] \in Nat
        BY <2>2 DEF due
      <4> QED BY <2>2, <3>1, <3>3, <4>1, <4>2
    <3>5. CASE queue'[1] \in InQueue(Heap)
      <4>1. PICK m \in 1..Len(queue) : queue'[1] = queue[m]
        BY <1>1, <3>5, QueueFacts DEF Kept, InQueue
      <4>2. /\ Time(queue[1])' = Time(queue[m]) /\ Time(queue[m]) = When(Heap, m)
            /\ Time(queue[1]) = When(Heap, 1) /\ queue # <<>>
        BY <1>1, <2>11, <4>1, QueueFacts DEF Kept, Time
      <4>3. When(Heap, 1) <= When(Heap, m) /\ When(Heap, m) \in Nat
        BY <1>1, QueueFacts, RootLeast, HeapTypes DEF Kept
      <4>4. now + d[1] <= due /\ now + d[1] \in Nat
        BY <2>2 DEF due
      <4>5. CASE Time(queue[1]) > due
        <5>1. event' = now + slip' + d[1] /\ slip' \in Nat
          BY <3>3, <4>5
        <5>2. Time(queue[1])' \in Nat /\ Time(queue[1]) \in Nat /\ Time(queue[1]) <= Time(queue[1])'
          BY <3>3, <4>2, <4>3
        <5>3. now \in Nat /\ d[1] \in Nat /\ due \in Nat /\ now + d[1] <= due
          BY <2>2, <4>4
        <5> QED BY ONLY <4>5, <5>1, <5>2, <5>3, NotLater
      <4>6. CASE ~(Time(queue[1]) > due)
        <5>1. event' = event /\ slip' = slip /\ slip \in Nat
          BY <3>3, <4>2, <4>6
        <5>2. Time(queue[1])' \in Nat /\ Time(queue[1]) \in Nat /\ Time(queue[1]) <= Time(queue[1])'
          BY <3>3, <4>2, <4>3
        <5>3. event \in Nat /\ event <= Time(queue[1]) + slip
          BY <3>1, <4>2
        <5> QED BY <5>1, <5>2, <5>3
      <4> QED BY <4>5, <4>6
    <3> QED BY <3>2, <3>4, <3>5
  <2>18. queue' # <<>>
    BY <1>1, <2>1, <2>9, QueueFacts DEF Kept
  <2>19. Waits'
    BY <1>1, <2>17, <2>18 DEF Waits
  <2> QED BY <2>14, <2>15, <2>16, <2>19 DEF HeapInv
<1> QED BY <1>2, <1>3 DEF Schedule

LEMMA CancelKeeps ==
  ASSUME HeapInv, NEW id \in IDs, Cancel(id)
  PROVE  HeapInv'
<1>1. /\ Types /\ Hands /\ Kept /\ Waits /\ id \in Scheduled
      /\ task' = [task EXCEPT ![id].state = "CANCELLED"]
      /\ UNCHANGED <<now, queue, capacity, event, slip, phase, running, schedules>>
  BY DEF HeapInv, Cancel
<1>2. Scheduled' = Scheduled /\ task' \in [Scheduled -> TaskRecord]
  BY <1>1 DEF Types, Scheduled, TaskRecord
<1>3. \A i \in Scheduled : /\ task'[i].next = task[i].next /\ task'[i].period = task[i].period
                           /\ task'[i].index = task[i].index
  BY <1>1 DEF Types, TaskRecord
<1>4. Types' /\ Hands'
  BY <1>1, <1>2 DEF Types, Hands
<1>5. \A m \in 1..Len(queue) : queue[m] \in Scheduled /\ When(Heap, m)' = When(Heap, m)
  BY <1>1, <1>3, QueueFacts DEF Kept, When, Heap
<1>6. Kept'
  <2>1. IsHeap(Heap)'
    BY <1>1, <1>2, <1>3, <1>5, QueueFacts DEF Kept, IsHeap, Heap, Scheduled
  <2>2. \A m \in 2..Len(queue) : m \in 1..Len(queue) /\ m \div 2 \in 1..Len(queue)
    BY <1>1, QueueFacts, Halves DEF Kept
  <2>3. Ordered(Heap)'
    <3> SUFFICES ASSUME NEW m \in 2..Len(queue) PROVE When(Heap, m \div 2)' <= When(Heap, m)'
      BY <1>1 DEF Ordered, Heap
    <3> QED BY <1>1, <1>5, <2>2, QueueFacts DEF Kept, Ordered
  <2>4. InQueue(Heap)' = InQueue(Heap)
    BY <1>1 DEF InQueue, Heap
  <2> QED BY <1>1, <1>2, <1>3, <2>1, <2>3, <2>4 DEF Kept
<1>7. Waits'
  <2>1. queue # <<>> => Time(queue[1])' = Time(queue[1])
    BY <1>1, <1>3, QueueFacts DEF Kept, Time
  <2> QED BY <1>1, <2>1 DEF Waits
<1> QED BY <1>4, <1>6, <1>7 DEF HeapInv

\* The heap and the tasks are left alone.
LEMMA SameHeap ==
  ASSUME Kept, UNCHANGED <<task, queue, running>>
  PROVE  Kept' /\ Scheduled' = Scheduled
BY DEF Kept, Heap, IsHeap, Ordered, InQueue, When, Scheduled

\* What Routine sees of the first task.
LEMMA MinFacts ==
  ASSUME Types, Hands, Kept, Due
  PROVE  /\ Len(Heap.q) # 0 /\ Heap.q[1] = Min /\ Min \in Scheduled /\ Min \in InQueue(Heap)
         /\ running = NONE /\ phase = "routine" /\ task[Min] \in TaskRecord
         /\ Len(queue) \in Nat \ {0} /\ InQueue(Heap) = Scheduled /\ IsHeap(Heap) /\ Ordered(Heap)
         /\ now \in Nat
<1>1. queue # <<>> /\ phase = "routine" /\ running = NONE
  BY DEF Due, Late, Hands
<1>2. Len(queue) \in Nat \ {0} /\ 1 \in 1..Len(queue) /\ Heap.q = queue
  BY <1>1, QueueFacts DEF Kept
<1>3. Min \in Scheduled /\ Min \in InQueue(Heap)
  BY <1>2, QueueFacts DEF Kept, Min, InQueue
<1>4. InQueue(Heap) = Scheduled
  BY <1>1, RunningFacts DEF Kept, Types
<1> QED BY <1>1, <1>2, <1>3, <1>4, TimerAssumption DEF Types, Min, Kept

LEMMA RunPeriodicKeeps ==
  ASSUME HeapInv, RunPeriodic
  PROVE  HeapInv'
<1>1. /\ Types /\ Hands /\ Kept /\ Due /\ task[Min].period > 0
      /\ running' = Min /\ phase' = "run"
      /\ UNCHANGED <<now, capacity, event, slip, schedules>>
  BY DEF HeapInv, RunPeriodic
<1>2. PICK g \in RescheduleMin(Heap, now + task[Min].period) : queue' = g.q /\ task' = g.t
  BY DEF RunPeriodic, Becomes
<1>3. now + task[Min].period \in Nat
  BY <1>1, MinFacts DEF TaskRecord
<1>4. /\ IsHeap(g) /\ Ordered(g) /\ DOMAIN g.t = Scheduled
      /\ Len(g.q) = Len(queue) /\ InQueue(g) = InQueue(Heap)
      /\ \A id \in Scheduled : g.t[id].period = task[id].period
  <2>1. DOMAIN Heap.t = Scheduled /\ Heap.t = task /\ Heap.q = queue
    BY DEF Heap, Scheduled
  <2>2. IsHeap(Heap) /\ Ordered(Heap) /\ Len(Heap.q) # 0
    BY <1>1, MinFacts
  <2> QED BY <1>3, <2>1, <2>2, RescheduleHeap
<1>5. /\ IsHeap(Heap)' /\ Ordered(Heap)' /\ InQueue(Heap)' = Scheduled
      /\ Scheduled' = Scheduled /\ task' \in [Scheduled' -> TaskRecord]
  BY <1>1, <1>2, <1>4, HeapNext, MinFacts
<1>6. Types' /\ Hands' /\ Waits'
  BY <1>1, <1>2, <1>4, <1>5, MinFacts DEF Types, Hands, Waits
<1>7. Kept'
  BY <1>1, <1>2, <1>4, <1>5, MinFacts DEF Kept
<1> QED BY <1>6, <1>7 DEF HeapInv

LEMMA RunOnceKeeps ==
  ASSUME HeapInv, RunOnce
  PROVE  HeapInv'
<1>1. /\ Types /\ Hands /\ Kept /\ Due /\ task[Min].period = 0
      /\ running' = Min /\ phase' = "run"
      /\ UNCHANGED <<now, capacity, event, slip, schedules>>
  BY DEF HeapInv, RunOnce
<1>2. PICK g \in RemoveMin(Heap) : queue' = g.q /\ task' = [g.t EXCEPT ![Min].state = "EXECUTED"]
  BY DEF RunOnce
<1> DEFINE f == [q |-> g.q, t |-> [g.t EXCEPT ![Min].state = "EXECUTED"]]
<1>3. /\ IsHeap(g) /\ Ordered(g) /\ DOMAIN g.t = Scheduled
      /\ Len(g.q) = Len(queue) - 1 /\ InQueue(g) = Scheduled \ {Min}
      /\ \A id \in Scheduled : g.t[id].period = task[id].period
  <2>1. DOMAIN Heap.t = Scheduled /\ Heap.t = task /\ Heap.q = queue
    BY DEF Heap, Scheduled
  <2>2. /\ IsHeap(Heap) /\ Ordered(Heap) /\ Len(Heap.q) # 0 /\ Heap.q[1] = Min
        /\ InQueue(Heap) = Scheduled
    BY <1>1, MinFacts
  <2> QED BY <2>1, <2>2, RemoveHeap DEF SameTasks
<1>4. /\ f.q = g.q /\ DOMAIN f.t = Scheduled /\ f.t \in [DOMAIN f.t -> TaskRecord]
      /\ \A id \in Scheduled : /\ f.t[id].period = g.t[id].period /\ f.t[id].next = g.t[id].next
                               /\ f.t[id].index = g.t[id].index
  <2>1. /\ f.q = g.q /\ DOMAIN f.t = Scheduled /\ f.t = [id \in Scheduled |-> f.t[id]]
        /\ \A id \in Scheduled : f.t[id] = IF id = Min THEN [g.t[id] EXCEPT !.state = "EXECUTED"] ELSE g.t[id]
    BY <1>3
  <2>2. \A id \in Scheduled : g.t[id] \in TaskRecord
    BY <1>3 DEF IsHeap
  <2> HIDE DEF f
  <2>3. \A id \in Scheduled : /\ f.t[id] \in TaskRecord /\ f.t[id].period = g.t[id].period
                              /\ f.t[id].next = g.t[id].next /\ f.t[id].index = g.t[id].index
    <3>1. ASSUME NEW id \in Scheduled, id # Min PROVE f.t[id] = g.t[id]
      BY <2>1, <3>1
    <3>2. CASE Min \in Scheduled
      <4>1. f.t[Min] = [g.t[Min] EXCEPT !.state = "EXECUTED"] /\ g.t[Min] \in TaskRecord
        BY <2>1, <2>2, <3>2
      <4>2. /\ f.t[Min] \in TaskRecord /\ f.t[Min].period = g.t[Min].period
            /\ f.t[Min].next = g.t[Min].next /\ f.t[Min].index = g.t[Min].index
        BY <4>1 DEF TaskRecord
      <4> QED BY <2>2, <3>1, <4>2
    <3>3. CASE Min \notin Scheduled
      BY <2>2, <3>1, <3>3
    <3> QED BY <3>2, <3>3
  <2> QED BY <2>1, <2>3
<1>5. queue' = f.q /\ task' = f.t
  BY <1>2
<1> HIDE DEF f
<1>6. IsHeap(f) /\ Ordered(f) /\ InQueue(f) = Scheduled \ {Min}
  <2>1. \A m \in 1..Len(g.q) : g.q[m] \in Scheduled /\ When(f, m) = When(g, m)
    BY <1>3, <1>4 DEF IsHeap, When
  <2>2. \A m \in 2..Len(g.q) : m \in 1..Len(g.q) /\ m \div 2 \in 1..Len(g.q)
    BY <1>3, HeapTypes, Halves
  <2>3. Ordered(f)
    <3> SUFFICES ASSUME NEW m \in 2..Len(g.q) PROVE When(f, m \div 2) <= When(f, m)
      BY <1>4 DEF Ordered
    <3> QED BY <1>3, <2>1, <2>2 DEF Ordered
  <2> QED BY <1>3, <1>4, <2>1, <2>3 DEF IsHeap, InQueue
<1>7. /\ IsHeap(Heap)' /\ Ordered(Heap)' /\ InQueue(Heap)' = Scheduled \ {Min}
      /\ Scheduled' = Scheduled /\ task' \in [Scheduled' -> TaskRecord]
  BY <1>4, <1>5, <1>6, HeapNext
<1>8. Types' /\ Hands' /\ Waits'
  BY <1>1, <1>3, <1>4, <1>5, <1>7, MinFacts DEF Types, Hands, Waits
<1>9. Kept'
  BY <1>1, <1>3, <1>4, <1>5, <1>7, MinFacts DEF Kept
<1> QED BY <1>8, <1>9 DEF HeapInv

\* A task that is not in the heap goes from the table.
LEMMA WithoutTask ==
  ASSUME NEW h, IsHeap(h), Ordered(h), NEW id, id \notin InQueue(h),
         NEW f, f.q = h.q, f.t = Without(h.t, id)
  PROVE  /\ IsHeap(f) /\ Ordered(f) /\ InQueue(f) = InQueue(h)
         /\ DOMAIN f.t = DOMAIN h.t \ {id} /\ \A i \in DOMAIN f.t : f.t[i] = h.t[i]
<1>1. DOMAIN f.t = DOMAIN h.t \ {id} /\ \A i \in DOMAIN f.t : f.t[i] = h.t[i]
  BY DEF Without
<1>2. \A m \in 1..Len(h.q) : h.q[m] \in DOMAIN f.t /\ When(f, m) = When(h, m)
  BY <1>1 DEF IsHeap, InQueue, When
<1>3. f.t \in [DOMAIN f.t -> TaskRecord]
  BY <1>1 DEF IsHeap, Without
<1>4. IsHeap(f)
  BY <1>1, <1>2, <1>3 DEF IsHeap
<1>5. Ordered(f)
  <2> SUFFICES ASSUME NEW m \in 2..Len(h.q) PROVE When(f, m \div 2) <= When(f, m)
    BY DEF Ordered
  <2>1. m \in 1..Len(h.q) /\ m \div 2 \in 1..Len(h.q)
    BY HeapTypes, Halves
  <2> QED BY <1>2, <2>1 DEF Ordered
<1> QED BY <1>1, <1>4, <1>5 DEF InQueue

LEMMA RunReturnsKeeps ==
  ASSUME HeapInv, RunReturns
  PROVE  HeapInv'
<1>1. /\ Types /\ Hands /\ Kept /\ phase = "run" /\ running \in Scheduled
      /\ running' = NONE /\ phase' = "routine"
      /\ UNCHANGED <<now, queue, capacity, event, slip, schedules>>
  BY DEF HeapInv, RunReturns, Hands
<1>2. IsHeap(Heap) /\ Ordered(Heap) /\ Heap.q = queue /\ Heap.t = task /\ DOMAIN Heap.t = Scheduled
  BY <1>1 DEF Kept, Heap, Scheduled
<1>3. NONE \notin Scheduled'
  BY <1>1, RunningFacts DEF RunReturns, Without, Types, Scheduled
<1>4. CASE task[running].period > 0
  <2>1. task' = task /\ Scheduled' = Scheduled /\ IsHeap(Heap)' /\ Ordered(Heap)'
        /\ InQueue(Heap)' = InQueue(Heap)
    BY <1>1, <1>4 DEF RunReturns, Scheduled, Kept, Heap, IsHeap, Ordered, InQueue, When
  <2>2. Kept'
    BY <1>1, <1>3, <1>4, <2>1 DEF Kept
  <2> QED BY <1>1, <2>1, <2>2 DEF HeapInv, Types, Hands, Waits
<1>5. CASE ~(task[running].period > 0)
  <2> DEFINE f == [q |-> queue, t |-> Without(task, running)]
  <2>1. task' = f.t /\ queue' = f.q /\ f.q = Heap.q /\ f.t = Without(Heap.t, running)
    BY <1>1, <1>2, <1>5 DEF RunReturns
  <2> HIDE DEF f
  <2>2. running \notin InQueue(Heap)
    BY <1>5 DEF HeapInv, Kept
  <2>3. /\ IsHeap(f) /\ Ordered(f) /\ InQueue(f) = InQueue(Heap)
        /\ DOMAIN f.t = Scheduled \ {running} /\ \A i \in DOMAIN f.t : f.t[i] = task[i]
    BY <1>2, <2>1, <2>2, WithoutTask
  <2>4. /\ IsHeap(Heap)' /\ Ordered(Heap)' /\ InQueue(Heap)' = InQueue(Heap)
        /\ Scheduled' = Scheduled \ {running} /\ task' \in [Scheduled' -> TaskRecord]
    BY <2>1, <2>3, HeapNext
  <2>5. Kept'
    BY <1>1, <1>3, <1>5, <2>1, <2>3, <2>4 DEF Kept
  <2>6. Types' /\ Hands' /\ Waits'
    BY <1>1, <2>4 DEF Types, Hands, Waits
  <2> QED BY <2>5, <2>6 DEF HeapInv
<1> QED BY <1>4, <1>5

LEMMA DropCancelledKeeps ==
  ASSUME HeapInv, DropCancelled
  PROVE  HeapInv'
<1>1. /\ Types /\ Hands /\ Kept /\ Due
      /\ UNCHANGED <<now, capacity, event, slip, phase, running, schedules>>
  BY DEF HeapInv, DropCancelled
<1>2. PICK g \in RemoveMin(Heap) : queue' = g.q /\ task' = Without(g.t, Min)
  BY DEF DropCancelled
<1>3. /\ IsHeap(g) /\ Ordered(g) /\ DOMAIN g.t = Scheduled
      /\ Len(g.q) = Len(queue) - 1 /\ InQueue(g) = Scheduled \ {Min}
      /\ \A id \in Scheduled : g.t[id].period = task[id].period
  <2>1. DOMAIN Heap.t = Scheduled /\ Heap.t = task /\ Heap.q = queue
    BY DEF Heap, Scheduled
  <2>2. /\ IsHeap(Heap) /\ Ordered(Heap) /\ Len(Heap.q) # 0 /\ Heap.q[1] = Min
        /\ InQueue(Heap) = Scheduled
    BY <1>1, MinFacts
  <2> QED BY <2>1, <2>2, RemoveHeap DEF SameTasks
<1> DEFINE f == [q |-> g.q, t |-> Without(g.t, Min)]
<1>4. queue' = f.q /\ task' = f.t /\ f.q = g.q /\ f.t = Without(g.t, Min)
  BY <1>2
<1> HIDE DEF f
<1>5. IsHeap(f) /\ Ordered(f) /\ InQueue(f) = Scheduled \ {Min} /\ DOMAIN f.t = Scheduled \ {Min}
  BY <1>3, <1>4, WithoutTask
<1>6. /\ IsHeap(Heap)' /\ Ordered(Heap)' /\ InQueue(Heap)' = Scheduled'
      /\ Scheduled' = Scheduled \ {Min} /\ task' \in [Scheduled' -> TaskRecord]
  BY <1>4, <1>5, HeapNext
<1>7. Types' /\ Hands' /\ Waits'
  BY <1>1, <1>3, <1>4, <1>6, MinFacts DEF Types, Hands, Waits
<1>8. Kept'
  BY <1>1, <1>6, MinFacts, RunningFacts DEF Kept, Types
<1> QED BY <1>7, <1>8 DEF HeapInv

LEMMA RoutineReturnsKeeps ==
  ASSUME HeapInv, RoutineReturns
  PROVE  HeapInv'
<1>1. /\ Types /\ Hands /\ Kept /\ phase = "routine" /\ ~Late /\ phase' = "idle"
      /\ UNCHANGED <<task, queue, capacity, running, schedules>>
  BY DEF HeapInv, RoutineReturns
<1>2. Kept' /\ Scheduled' = Scheduled
  BY <1>1, SameHeap
<1>3. CASE queue = <<>> /\ event' = NONE /\ UNCHANGED <<now, slip>>
  BY <1>1, <1>2, <1>3 DEF HeapInv, Types, Hands, Waits
<1>4. CASE queue # <<>> /\ SetEvent(Time(Min) - now)
  <2>1. Time(Min) \in Nat /\ now \in Nat /\ now < Time(Min)
    <3>1. Time(Min) \in Nat
      BY <1>1, <1>4, QueueFacts, HeapTypes DEF Kept, Min
    <3> QED BY <1>1, <1>4, <3>1, TimerAssumption DEF Types, Late
  <2>2. now' \in 0..MaxNow /\ slip' \in Nat /\ event' = now + slip' + (Time(Min) - now) /\ event' \in Nat
    <3>1. Time(Min) - now \in Nat
      BY <2>1
    <3> QED BY <1>4, <2>1, <3>1, SetEventFacts
  <2>3. event' <= Time(queue[1])' + slip' /\ queue' # <<>>
    BY <1>1, <1>4, <2>1, <2>2 DEF Min, Time
  <2> QED BY <1>1, <1>2, <2>2, <2>3 DEF HeapInv, Types, Hands, Waits
<1> QED BY <1>3, <1>4 DEF RoutineReturns

LEMMA HeapInvNext ==
  ASSUME HeapInv, [TimerNext]_timerVars
  PROVE  HeapInv'
<1>1. ASSUME NEW id \in GenerateTimerTaskID, NEW d \in Delays, Schedule(id, d) PROVE HeapInv'
  <2>1. id \in IDs
    BY DEF GenerateTimerTaskID, HeapInv, Types
  <2> QED BY <1>1, <2>1, ScheduleKeeps
<1>2. ASSUME NEW id \in IDs, Cancel(id) PROVE HeapInv'
  BY <1>2, CancelKeeps
<1>3. CASE TimeoutCB
  BY <1>3, SameHeap DEF TimeoutCB, HeapInv, Types, Hands, Waits
<1>4. CASE Tick
  BY <1>4, SameHeap, TimerAssumption DEF Tick, HeapInv, Types, Hands, Waits, Time
<1>5. CASE UNCHANGED timerVars
  BY <1>5, SameHeap DEF timerVars, HeapInv, Types, Hands, Waits, Time
<1> QED BY <1>1, <1>2, <1>3, <1>4, <1>5, RunPeriodicKeeps, RunOnceKeeps, RunReturnsKeeps,
           DropCancelledKeeps, RoutineReturnsKeeps DEF TimerNext

LEMMA HeapInvAlways == TimerSpec => []HeapInv
BY HeapInvInit, HeapInvNext, PTL DEF TimerSpec

\* However tasks are scheduled, cancelled, run and rescheduled, the heap stays
\* in order, every task knows its place, and no task is lost or held twice.
THEOREM HeapTheorem == TimerSpec => []HeapConsistent
BY HeapInvAlways, HeapInvConsistent, PTL

\* Whenever the loop waits and tasks are left, the time event is there, and is
\* late for none of them by more than the time that passed between the timer's
\* reading of the clock and that of ae.c when the event was set.
THEOREM ArmedTheorem == TimerSpec => []Armed
BY HeapInvAlways, HeapInvConsistent, PTL

\* Whatever is in the heap, a task that is added, rescheduled or removed ends
\* in some place of it: FixUp and FixDown come to an end.
OperationsEnd ==
  /\ \A id \in IDs \ Scheduled, new \in TaskRecord : Add(Entered(id, new), id) # {}
  /\ Due => RemoveMin(Heap) # {} /\ RescheduleMin(Heap, now + task[Min].period) # {}

THEOREM OperationsEndTheorem == TimerSpec => []OperationsEnd
<1>1. HeapInv => OperationsEnd
  <2> SUFFICES ASSUME HeapInv PROVE OperationsEnd
    OBVIOUS
  <2>1. ASSUME NEW id \in IDs \ Scheduled, NEW new \in TaskRecord PROVE Add(Entered(id, new), id) # {}
    <3>1. PICK h : h = Entered(id, new)
      OBVIOUS
    <3>2. /\ IsHeap(h) /\ Ordered(h) /\ id \in DOMAIN h.t /\ id \in IDs /\ id \notin InQueue(h)
      BY <3>1, EnteredFacts DEF HeapInv
    <3> QED BY <3>1, <3>2, AddHeap
  <2>2. ASSUME Due PROVE RemoveMin(Heap) # {} /\ RescheduleMin(Heap, now + task[Min].period) # {}
    <3>1. IsHeap(Heap) /\ Ordered(Heap) /\ Len(Heap.q) # 0 /\ now + task[Min].period \in Nat
      BY <2>2, MinFacts DEF HeapInv, TaskRecord
    <3> QED BY <3>1, RemoveHeap, RescheduleHeap
  <2> QED BY <2>1, <2>2 DEF OperationsEnd
<1> QED BY <1>1, HeapInvAlways, PTL
=============================================================================
