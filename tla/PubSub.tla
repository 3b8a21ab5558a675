------------------------------- MODULE PubSub -------------------------------
(***************************************************************************)
(* SUBSCRIBE, PSUBSCRIBE, their opposites and PUBLISH (command/pubsub.cpp).*)
(* A topic is a channel or a pattern: the two tables of the code are one   *)
(* function of topics.  PUBLISH posts to the event loop of each subscriber,*)
(* which writes the message to the connection later.                       *)
(***************************************************************************)
EXTENDS Contexts

CONSTANTS
  Channels, Patterns,
  Matching,      \* Matching[ch]: the patterns that match channel ch
  MaxPublishes   \* bound: PUBLISH commands in all

ASSUME PubSubAssumption == Matching \in [Channels -> SUBSET Patterns]

Topics == Channels \cup Patterns

VARIABLES
  pubsub,           \* contexts with a PubSubContext
  subscribed,       \* of each context: pubsub_channels and pubsub_patterns
  m_pubsub_ctx,     \* m_pubsub_channels and m_pubsub_patterns
  receivers,        \* of a PUBLISH under way: <<topic, context>> pairs left
  inbox,            \* messages posted to the loop of each client: topics
  publishes         \* counter of the bound

pubsubVars == <<pubsub, subscribed, m_pubsub_ctx, receivers, inbox, publishes>>

PubSubInit ==
  /\ pubsub = {}
  /\ subscribed = [c \in Clients |-> {}]
  /\ m_pubsub_ctx = [t \in Topics |-> {}]
  /\ receivers = [c \in Clients |-> {}]
  /\ inbox = [c \in Clients |-> <<>>]
  /\ publishes = 0

\* m_pubsub_ctx_lock is free for a writer.
PubSubLockFree == \A c \in Clients : step[c] # "publishing"
-----------------------------------------------------------------------------
\* One argument of SUBSCRIBE or PSUBSCRIBE.
SubscribeChannel(c, t) ==
  /\ PubSubLockFree
  /\ pubsub' = pubsub \cup {c}
  /\ subscribed' = [subscribed EXCEPT ![c] = @ \cup {t}]
  /\ m_pubsub_ctx' = [m_pubsub_ctx EXCEPT ![t] = @ \cup {c}]
  /\ UNCHANGED <<receivers, inbox, publishes>>

\* (mutant of UnsubscribeChannel: the lock is not taken)
UnsubscribeChannelUnlocked(c, t) ==
  /\ pubsub' = pubsub \cup {c}
  /\ subscribed' = [subscribed EXCEPT ![c] = @ \ {t}]
  /\ m_pubsub_ctx' = [m_pubsub_ctx EXCEPT ![t] = @ \ {c}]
  /\ UNCHANGED <<receivers, inbox, publishes>>

UnsubscribeChannel(c, t) ==
  /\ PubSubLockFree
  /\ pubsub' = pubsub \cup {c}
  /\ subscribed' = [subscribed EXCEPT ![c] = @ \ {t}]
  /\ m_pubsub_ctx' = [m_pubsub_ctx EXCEPT ![t] = @ \ {c}]
  /\ UNCHANGED <<receivers, inbox, publishes>>

Subscribe(c, t) ==
  /\ Ready(c)
  /\ SubscribeChannel(c, t)
  /\ UNCHANGED contextVars

\* UNSUBSCRIBE and PUNSUBSCRIBE of a topic; without arguments they take the
\* topics of the context one after the other.
UnSubscribe(c, t) ==
  /\ Ready(c)
  /\ UnsubscribeChannel(c, t)
  /\ UNCHANGED contextVars
-----------------------------------------------------------------------------
PublishMessage(c, ch) ==
  /\ Ready(c)
  /\ publishes < MaxPublishes
  /\ publishes' = publishes + 1
  /\ receivers' = [receivers EXCEPT ![c] =
       {p \in ({ch} \cup Matching[ch]) \X Clients : p[2] \in m_pubsub_ctx[p[1]]}]
  /\ Goto(c, "publishing")
  /\ UNCHANGED <<m_clients, server, pubsub, subscribed, m_pubsub_ctx, inbox>>

\* AsyncIO of one message.
PublishTo(c, t, d) ==
  /\ step[c] = "publishing" /\ <<t, d>> \in receivers[c]
  /\ receivers' = [receivers EXCEPT ![c] = @ \ {<<t, d>>}]
  /\ inbox' = [inbox EXCEPT ![d] = Append(@, t)]
  /\ UNCHANGED <<contextVars, pubsub, subscribed, m_pubsub_ctx, publishes>>

PublishDone(c) ==
  /\ step[c] = "publishing" /\ receivers[c] = {}
  /\ Goto(c, "idle")
  /\ UNCHANGED <<m_clients, server, pubsubVars>>

\* The loop of c runs the callback.  A channel that is closed takes the
\* message and drops it; one that is deleted is NULL to the callback, which
\* uses it all the same.
AsyncWriteMessage(c) ==
  /\ inbox[c] # <<>> /\ step[c] \in Resting /\ Served(c)
  /\ inbox' = [inbox EXCEPT ![c] = Tail(@)]
  /\ server' = IF step[c] = "gone" THEN "crashed" ELSE server
  /\ UNCHANGED <<m_clients, step, pubsub, subscribed, m_pubsub_ctx,
                 receivers, publishes>>
=============================================================================
